---- MODULE Spec2Model ----
(***************************************************************************)
(* The GitHub Copilot token lifecycle of koosty/crush.                     *)
(*                                                                         *)
(* Spec models the caching Transport (internal/oauth/copilot transport):   *)
(* concurrent RoundTrip and ClearCache calls on one Transport, the         *)
(* sync.RWMutex that guards the cached Copilot token, the injected         *)
(* provider and saver callbacks, the token exchange and the wall clock.    *)
(* PollSpec models one call of PollForToken (the device-flow polling        *)
(* loop): its interval, its wait timer, the cancellation of its context    *)
(* and the replies of the token endpoint.                                  *)
(* ExpirySpec applies the expiry functions of oauth.Token and CopilotToken *)
(* to tokens drawn from bounded sets, as the clock runs. ExchangeSpec      *)
(* applies ExchangeForCopilotToken and ValidateToken to the answers of the *)
(* exchange endpoint.                                                      *)
(***************************************************************************)
EXTENDS Integers, Sequences, FiniteSets, TLC

(***************************************************************************)
(* Bounds of the model.                                                    *)
(***************************************************************************)
\* Number of goroutines that call into the one Transport.
NumCallers == 2
\* Calls (RoundTrip or ClearCache) made on the Transport in one run.
MaxCalls == 3
\* The clock time.Now().Unix() runs over 0..MaxTime.
MaxTime == 1
\* int64 is modelled as a two's-complement integer of IntWidth bits.
IntWidth == 8
\* Poll attempts (calls of pollOnce) followed in one call of PollForToken.
MaxAttempts == 3
\* Calls the owner of the dialog makes on it, and device flows it starts.
MaxOps == 3
MaxFlows == 2

(***************************************************************************)
(* Program constants.                                                      *)
(***************************************************************************)
\* The fixed buffer of CopilotToken.IsExpired and Token.IsCopilotTokenExpired.
ExpiryBuffer == 60
\* Token.IsExpired: the part of the lifetime kept as a buffer is ExpiresIn/10.
LifetimeDivisor == 10
\* PollForToken: the smallest interval it starts with, in seconds.
MinInterval == 5
\* PollForToken: what a slow_down adds when the server's interval is no larger.
SlowDownStep == 5
\* time.Second in the ticks of time.Duration. The real value is 10^9 in a
\* word of 64 bits; it is scaled down with the word to IntWidth bits, so that
\* seconds * Second leaves the word for large intervals as it does in Go.
Second == 4

Procs == 1 .. NumCallers

RECURSIVE Pow2(_)
Pow2(n) == IF n = 0 THEN 1 ELSE 2 * Pow2(n - 1)

MinInt == 0 - Pow2(IntWidth - 1)
MaxInt == Pow2(IntWidth - 1) - 1

\* Go's signed integer arithmetic wraps around silently.
WrapInt(x) == ((x - MinInt) % Pow2(IntWidth)) + MinInt

(***************************************************************************)
(* Values.                                                                 *)
(***************************************************************************)
\* A response body of the exchange endpoint: unparsable, or a JSON object
\* whose token and expires_at are the zero values when absent.
Body(parsable, tok, exp) == [parsable |-> parsable, token |-> tok, expires_at |-> exp]
NoBody == Body(FALSE, "", 0)

\* A Go error: its message and, for an unexpected status, the status and
\* the body. NoErr is the nil error.
Err(kind, status, body) == [kind |-> kind, status |-> status, body |-> body]
NoErr == Err("nil", 0, NoBody)

\* *CopilotToken: the nil pointer, or a pointer to {Token, ExpiresAt}.
NilCopilotToken == [isNil |-> TRUE, Token |-> "", ExpiresAt |-> 0]
CopilotToken(tok, exp) == [isNil |-> FALSE, Token |-> tok, ExpiresAt |-> exp]

\* *oauth.Token: the nil pointer, or a pointer to the credential record.
NilOAuthToken ==
  [isNil |-> TRUE, RefreshToken |-> "", CopilotToken |-> "", CopilotExpiresAt |-> 0]
OAuthToken(refresh, tok, exp) ==
  [isNil |-> FALSE, RefreshToken |-> refresh, CopilotToken |-> tok,
   CopilotExpiresAt |-> exp]

\* Expiry timestamps: one whose token runs out at time 1, and one whose
\* token stays good over the whole clock.
SoonExpiry == ExpiryBuffer + 1
LateExpiry == ExpiryBuffer + MaxTime + 1

(***************************************************************************)
(* Expiry checks.                                                          *)
(***************************************************************************)
\* A slip in IsExpired: the comparison the wrong way round.
IsExpiredReversed(t, at) ==
  IF t.isNil \/ t.Token = "" THEN TRUE
  ELSE at <= WrapInt(t.ExpiresAt - ExpiryBuffer)

\* CopilotToken.IsExpired at time t.
IsExpired(t, at) ==
  IF t.isNil \/ t.Token = "" THEN TRUE
  ELSE at >= WrapInt(t.ExpiresAt - ExpiryBuffer)

\* A slip in IsCopilotTokenExpired: the comparison the wrong way round.
IsCopilotTokenExpiredReversed(t, at) ==
  IF t.isNil \/ t.CopilotToken = "" THEN TRUE
  ELSE at <= WrapInt(t.CopilotExpiresAt - ExpiryBuffer)

\* A slip in IsCopilotTokenExpired: the 60 second buffer left out.
IsCopilotTokenExpiredNoBuffer(t, at) ==
  IF t.isNil \/ t.CopilotToken = "" THEN TRUE
  ELSE at >= t.CopilotExpiresAt

\* oauth.Token.IsCopilotTokenExpired at time t.
IsCopilotTokenExpired(t, at) ==
  IF t.isNil \/ t.CopilotToken = "" THEN TRUE
  ELSE at >= WrapInt(t.CopilotExpiresAt - ExpiryBuffer)

(***************************************************************************)
(* HTTP headers and requests.                                              *)
(***************************************************************************)
\* A header value is a sequence of words; <<>> is an absent header.
HeaderNames ==
  {"Authorization", "User-Agent", "Editor-Version", "Editor-Plugin-Version",
   "Copilot-Integration-Id", "Openai-Intent", "X-Initiator", "Accept"}

NoHeaders == [h \in HeaderNames |-> <<>>]

\* http.Header.Set
HeaderSet(hdr, key, value) == [hdr EXCEPT ![key] = value]

\* The fixed header set that mimics the VS Code Copilot extension.
CopilotHeaders ==
  [h \in {"User-Agent", "Editor-Version", "Editor-Plugin-Version",
          "Copilot-Integration-Id"} |->
     CASE h = "User-Agent" -> <<"GitHubCopilotChat/0.32.4">>
       [] h = "Editor-Version" -> <<"vscode/1.105.1">>
       [] h = "Editor-Plugin-Version" -> <<"copilot-chat/0.32.4">>
       [] h = "Copilot-Integration-Id" -> <<"vscode-chat">>]

\* The loop "for key, value := range CopilotHeaders { Header.Set(key, value) }".
SetCopilotHeaders(hdr) ==
  [h \in HeaderNames |-> IF h \in DOMAIN CopilotHeaders THEN CopilotHeaders[h] ELSE hdr[h]]

\* A slip in RoundTrip: a header the caller has set is left as it is.
OutgoingHeadersKeepCaller(hdr, tok) ==
  LET set(h, key, value) == IF h[key] = <<>> THEN HeaderSet(h, key, value) ELSE h
      auth == set(hdr, "Authorization", <<"Bearer", tok>>)
      mimic == [h \in HeaderNames |->
                  IF h \in DOMAIN CopilotHeaders /\ auth[h] = <<>>
                    THEN CopilotHeaders[h] ELSE auth[h]] IN
  set(set(mimic, "Openai-Intent", <<"conversation-edits">>), "X-Initiator", <<"user">>)

\* The headers of the request RoundTrip hands to the underlying transport.
OutgoingHeaders(hdr, tok) ==
  HeaderSet(
    HeaderSet(
      SetCopilotHeaders(HeaderSet(hdr, "Authorization", <<"Bearer", tok>>)),
      "Openai-Intent", <<"conversation-edits">>),
    "X-Initiator", <<"user">>)

\* A slip in RoundTrip: the headers are set on the caller's request itself.
OriginalWrittenInPlace(hdr, tok) == OutgoingHeaders(hdr, tok)

\* What the header writes of RoundTrip leave in the caller's request: they
\* go to the clone made by req.Clone, so the caller's headers stay.
OriginalAfterRoundTrip(hdr, tok) == hdr

\* A request that was never built (reqCopy before the clone).
NoRequest == [built |-> FALSE, Header |-> NoHeaders]
Request(hdr) == [built |-> TRUE, Header |-> hdr]

\* Requests the callers send.
Requests ==
  {Request(NoHeaders),
   Request([NoHeaders EXCEPT !["Authorization"] = <<"Bearer", "caller-token">>,
                             !["User-Agent"] = <<"crush/1.0">>,
                             !["X-Initiator"] = <<"agent">>,
                             !["Accept"] = <<"text/event-stream">>])}

\* What RoundTrip returns: (*http.Response, error).
NoResult == [resp |-> "none", err |-> NoErr]
Result(resp, err) == [resp |-> resp, err |-> err]

\* Outcomes of the underlying transport.
BaseOutcomes ==
  {Result("200 OK", NoErr), Result("nil", Err("base transport error", 0, NoBody))}

(***************************************************************************)
(* The token exchange.                                                     *)
(***************************************************************************)
\* What doRequest returns: a transport error, or a status and a body.
HttpReply(failed, status, body) == [failed |-> failed, status |-> status, body |-> body]

\* Replies the exchange endpoint gives the Transport: the account has no
\* Copilot access, a server error, an object without a token, and tokens
\* that run out at time 1 or stay good over the whole clock.
ExchangeReplies ==
  {HttpReply(FALSE, 403, NoBody), HttpReply(FALSE, 500, NoBody),
   HttpReply(FALSE, 200, Body(TRUE, "", 0)),
   HttpReply(FALSE, 200, Body(TRUE, "copilot-A", SoonExpiry)),
   HttpReply(FALSE, 200, Body(TRUE, "copilot-A", LateExpiry)),
   HttpReply(FALSE, 200, Body(TRUE, "copilot-B", LateExpiry))}

\* ExchangeForCopilotToken: (*CopilotToken, error) for a reply of the endpoint.
ExchangeOk(tok) == [called |-> TRUE, tok |-> tok, err |-> NoErr]
ExchangeErr(err) == [called |-> TRUE, tok |-> NilCopilotToken, err |-> err]
\* The locals copilotToken, err of getValidToken before the exchange is called.
NotExchanged == [called |-> FALSE, tok |-> NilCopilotToken, err |-> NoErr]

\* A slip in the switch on the status: 429 has no case of its own.
ExchangeWithoutRateLimit(reply) ==
  IF reply.failed THEN ExchangeErr(Err("failed to exchange for copilot token", 0, NoBody))
  ELSE CASE reply.status = 200 ->
              IF reply.body.parsable
                THEN ExchangeOk(CopilotToken(reply.body.token, reply.body.expires_at))
                ELSE ExchangeErr(Err("failed to parse copilot token response", 0, NoBody))
         [] reply.status = 401 -> ExchangeErr(Err("github authentication failed", 0, NoBody))
         [] reply.status = 403 -> ExchangeErr(Err("no copilot access", 0, NoBody))
         [] OTHER -> ExchangeErr(Err("copilot token exchange failed with status",
                                     reply.status, reply.body))

ExchangeForCopilotToken(reply) ==
  IF reply.failed THEN ExchangeErr(Err("failed to exchange for copilot token", 0, NoBody))
  ELSE CASE reply.status = 200 ->
              IF reply.body.parsable
                THEN ExchangeOk(CopilotToken(reply.body.token, reply.body.expires_at))
                ELSE ExchangeErr(Err("failed to parse copilot token response", 0, NoBody))
         [] reply.status = 401 -> ExchangeErr(Err("github authentication failed", 0, NoBody))
         [] reply.status = 403 -> ExchangeErr(Err("no copilot access", 0, NoBody))
         [] reply.status = 429 -> ExchangeErr(Err("rate limited", 0, NoBody))
         [] OTHER -> ExchangeErr(Err("copilot token exchange failed with status",
                                     reply.status, reply.body))

(***************************************************************************)
(* The provider callback.                                                  *)
(***************************************************************************)
ProviderOk(t) == [called |-> TRUE, tok |-> t, err |-> NoErr]
ProviderErr ==
  [called |-> TRUE, tok |-> NilOAuthToken, err |-> Err("token provider error", 0, NoBody)]
\* The locals oauthToken, err of getValidToken before the provider is called.
NotProvided == [called |-> FALSE, tok |-> NilOAuthToken, err |-> NoErr]

\* What tokenProvider() may return.
ProviderResults ==
  {ProviderErr, ProviderOk(NilOAuthToken),
   ProviderOk(OAuthToken("", "persisted", LateExpiry)),
   ProviderOk(OAuthToken("gho_x", "", 0)),
   ProviderOk(OAuthToken("gho_x", "persisted", SoonExpiry)),
   ProviderOk(OAuthToken("gho_x", "persisted", LateExpiry))}

\* The error of getValidToken for a nil credential or an empty secret.
NoTokenErr == Err("no_token", 0, NoBody)

(***************************************************************************)
(* The device-flow token endpoint and pollOnce.                            *)
(***************************************************************************)
\* The error of pollOnce or PollForToken: nil, an *OAuthError with its Code,
\* an error made by fmt.Errorf (its message in code), or ctx.Err().
PollErr(type, code) == [type |-> type, code |-> code]
NoPollErr == PollErr("nil", "")
CtxErr == PollErr("ctx", "context canceled")

\* What client.Do gives pollOnce: a failed request, or a body that is
\* unparsable or a JSON object with error, interval and access_token (the
\* zero values when absent). pollOnce does not look at the status code.
PollReply(failed, parsable, error, interval, access_token) ==
  [failed |-> failed, parsable |-> parsable, error |-> error,
   interval |-> interval, access_token |-> access_token]

\* What the HTTP client answers once the context of the request is cancelled.
CancelledReply == PollReply(TRUE, FALSE, "", 0, "")

\* An interval whose duration in ticks no longer fits the word.
BigInterval == (MaxInt \div Second) + 1

\* Intervals a slow_down answer carries.
SlowIntervals == {0, MinInterval + 2, BigInterval}

\* Answers of the token endpoint: the request fails, the body is no JSON,
\* the user has not authorized yet, slow_down, the user refused, a
\* credential, and an object with neither an error nor a credential.
PollReplies ==
  {CancelledReply,
   PollReply(FALSE, FALSE, "", 0, ""),
   PollReply(FALSE, TRUE, "authorization_pending", 0, ""),
   PollReply(FALSE, TRUE, "access_denied", 0, ""),
   PollReply(FALSE, TRUE, "", 0, "gho_x"),
   PollReply(FALSE, TRUE, "", 0, "")}
  \cup {PollReply(FALSE, TRUE, "slow_down", s, "") : s \in SlowIntervals}

\* The interval arguments PollForToken is called with.
PollArgs == {MinInt, 0 - 1, 0, MinInterval - 2, MinInterval, MinInterval + 2}

\* pollOnce: (token, newInterval, err) for an answer of the endpoint.
PollOnceResult(tok, newInterval, err) ==
  [token |-> tok, newInterval |-> newInterval, err |-> err]

pollOnce(reply) ==
  IF reply.failed THEN PollOnceResult("", 0, PollErr("error", "failed to poll for token"))
  ELSE IF ~reply.parsable
    THEN PollOnceResult("", 0, PollErr("error", "failed to parse token response"))
  ELSE IF reply.error # ""
    THEN PollOnceResult("", reply.interval, PollErr("OAuthError", reply.error))
  ELSE PollOnceResult(reply.access_token, 0, NoPollErr)

\* What PollForToken returns: (string, error).
NotReturned == [returned |-> FALSE, token |-> "", err |-> NoPollErr]
Returned(tok, err) == [returned |-> TRUE, token |-> tok, err |-> err]

(***************************************************************************)
(* oauth.Token and its expiry.                                             *)
(***************************************************************************)
\* Go's integer division truncates toward zero.
GoDiv(a, b) == IF a >= 0 THEN a \div b ELSE 0 - ((0 - a) \div b)

\* *oauth.Token with the fields the expiry functions read or write.
NilToken ==
  [isNil |-> TRUE, ExpiresIn |-> 0, ExpiresAt |-> 0, CopilotToken |-> "",
   CopilotExpiresAt |-> 0]
Token(expiresIn, expiresAt, tok, exp) ==
  [isNil |-> FALSE, ExpiresIn |-> expiresIn, ExpiresAt |-> expiresAt,
   CopilotToken |-> tok, CopilotExpiresAt |-> exp]

\* Token.IsExpired at time at.
TokenIsExpired(t, at) ==
  at >= WrapInt(t.ExpiresAt - GoDiv(t.ExpiresIn, LifetimeDivisor))

\* Token.SetExpiresAt at time at:
\* time.Now().Add(time.Duration(t.ExpiresIn) * time.Second).Unix(), with the
\* clock at a whole second. The duration is an int64 product; Unix() rounds
\* down to the second.
SetExpiresAt(t, at) ==
  [t EXCEPT !.ExpiresAt = WrapInt(at + (WrapInt(t.ExpiresIn * Second) \div Second))]

\* The lifetimes, expiry times and short-lived tokens the functions are
\* applied to: the ends of the word, the values around the buffers.
Lifetimes == {MinInt, 0 - 11, 0, 1, 2, LifetimeDivisor, 2 * LifetimeDivisor, MaxInt}
ExpiryTimes == {MinInt, 0, 1, 2, 3, MaxInt}
CopilotExpiryTimes ==
  {MinInt, 0, ExpiryBuffer, ExpiryBuffer + 1, ExpiryBuffer + 2, MaxInt}
CopilotValues == {"", "tid=abc"}

\* The record of the last expiry function applied.
NoCall == [op |-> "none", at |-> 0, tok |-> NilToken, out |-> FALSE, panicked |-> FALSE]
Call(op, at, tok, out, panicked) ==
  [op |-> op, at |-> at, tok |-> tok, out |-> out, panicked |-> panicked]

\* ExchangeForCopilotToken or ValidateToken was not called.
NotCalled == [op |-> "none", reply |-> HttpReply(TRUE, 0, NoBody), res |-> NotExchanged]

\* The record of the last SetExpiresAt.
NotSet == [done |-> FALSE, at |-> 0, before |-> NilToken]

(***************************************************************************)
(* The OAuth dialog: its states, messages and commands.                    *)
(***************************************************************************)
OAuthStateInit == "OAuthStateInit"
OAuthStateWaitingForAuth == "OAuthStateWaitingForAuth"
OAuthStateValidating == "OAuthStateValidating"
OAuthStateSuccess == "OAuthStateSuccess"
OAuthStateError == "OAuthStateError"

OAuthStates ==
  {OAuthStateInit, OAuthStateWaitingForAuth, OAuthStateValidating, OAuthStateSuccess,
   OAuthStateError}

\* A device code: a string, with the length that o.deviceCode[:8] looks at.
DeviceCode(text, length) == [text |-> text, length |-> length]
NoDeviceCode == DeviceCode("", 0)

\* What copilot.StartDeviceFlow returns: an error, or the response of the
\* device code endpoint as it was parsed, with nothing checked.
DeviceFlowResponse(code, user, uri, interval) ==
  [failed |-> FALSE, DeviceCode |-> code, UserCode |-> user, VerificationURI |-> uri,
   Interval |-> interval]
DeviceFlowFailed ==
  [failed |-> TRUE, DeviceCode |-> NoDeviceCode, UserCode |-> "", VerificationURI |-> "",
   Interval |-> 0]

\* Answers of the device code endpoint: a failure, an object with no device
\* code, one with a code of three characters, and two full answers.
DeviceFlowResponses ==
  {DeviceFlowFailed,
   DeviceFlowResponse(NoDeviceCode, "", "", 0),
   DeviceFlowResponse(DeviceCode("abc", 3), "WDJB-MJHT", "https://github.com/login/device", 5),
   DeviceFlowResponse(DeviceCode("3584d83530557fdd1f46af8289938c8ef79f9dc5", 40),
                      "WDJB-MJHT", "https://github.com/login/device", 5),
   DeviceFlowResponse(DeviceCode("9f9dc53584d83530557fdd1f46af8289938c8ef7", 40),
                      "ABCD-1234", "https://github.com/login/device", 0)}

\* The messages of the dialog.
DeviceFlowStartedMsg(resp) ==
  [type |-> "DeviceFlowStartedMsg", DeviceCode |-> resp.DeviceCode,
   UserCode |-> resp.UserCode, VerificationURI |-> resp.VerificationURI,
   Interval |-> resp.Interval, Token |-> "", Error |-> NoPollErr, session |-> 0]
ValidationCompletedMsg(tok, error) ==
  [type |-> "ValidationCompletedMsg", DeviceCode |-> NoDeviceCode, UserCode |-> "",
   VerificationURI |-> "", Interval |-> 0, Token |-> tok, Error |-> error, session |-> 0]
\* session is not a field of the message: it names the polling session whose
\* command produced it.
PollingResultMsg(tok, error, session) ==
  [type |-> "PollingResultMsg", DeviceCode |-> NoDeviceCode, UserCode |-> "",
   VerificationURI |-> "", Interval |-> 0, Token |-> tok, Error |-> error,
   session |-> session]

\* The error of startDeviceFlow, and an error the owner of the dialog sets.
DeviceFlowErr == PollErr("error", "failed to start device flow")
OwnerErr == PollErr("error", "set by SetError")

\* The OAuth2 struct; cancelFunc is 0 for nil, or the number of the polling
\* session whose context it cancels.
OAuth2(state, code, user, uri, interval, error, tok, cancel) ==
  [State |-> state, deviceCode |-> code, userCode |-> user, verificationURI |-> uri,
   interval |-> interval, err |-> error, token |-> tok, cancelFunc |-> cancel]

NewOAuth2 == OAuth2(OAuthStateInit, NoDeviceCode, "", "", 0, NoPollErr, "", 0)

\* A polling session: the context made for it, the message it was started
\* for, and the device code and interval its command read when it ran.
Session(cancelled, phase, msg, code, interval) ==
  [cancelled |-> cancelled, phase |-> phase, msg |-> msg, code |-> code,
   interval |-> interval]

\* What PollForToken returns to the command of a session: a credential, the
\* user's refusal, or, with the context cancelled, the context's error.
PollOutcomes(cancelled) ==
  {Returned("gho_x", NoPollErr), Returned("", PollErr("OAuthError", "access_denied"))}
    \cup (IF cancelled THEN {Returned("", CtxErr)} ELSE {})

\* A message of another component that reaches Update: a tick of the spinner.
SpinnerTickMsg ==
  [type |-> "spinner.TickMsg", DeviceCode |-> NoDeviceCode, UserCode |-> "",
   VerificationURI |-> "", Interval |-> 0, Token |-> "", Error |-> NoPollErr,
   session |-> 0]

\* Messages Update is given that no command of the dialog sends: a tick, and
\* a PollingResultMsg with neither a token nor an error.
ForeignMsgs == {SpinnerTickMsg, PollingResultMsg("", NoPollErr, 0)}

\* A call of OAuth2.Token(): the stored token it was called with, and what
\* it returned.
NoTokenCall == [called |-> FALSE, token |-> "", out |-> NilOAuthToken]
TokenCall(tok, out) == [called |-> TRUE, token |-> tok, out |-> out]

\* No operation has been called on the dialog.
NoOp == [op |-> "none", seq |-> 0, before |-> NewOAuth2, cmds |-> <<>>]
Op(op, seq, before, cmds) == [op |-> op, seq |-> seq, before |-> before, cmds |-> cmds]

(***************************************************************************)
(* The model catalogue.                                                    *)
(***************************************************************************)
\* ModelsDevModel with the fields convertModels reads; ImageInput stands for
\* containsModality(m.Modalities.Input, "image").
ModelsDevModel(id, name, attachment, reasoning, image, context, output, status) ==
  [ID |-> id, Name |-> name, Attachment |-> attachment, Reasoning |-> reasoning,
   ImageInput |-> image, Context |-> context, Output |-> output, Status |-> status]

\* The models of the github-copilot provider, by their key in the map.
ModelKeys == {"gpt-4.1", "gpt-5-mini", "claude-sonnet-4", "o1-preview"}
CatalogueModel(k) ==
  CASE k = "gpt-4.1" ->
         ModelsDevModel("gpt-4.1", "GPT-4.1", TRUE, FALSE, FALSE, 128000, 16384, "")
    [] k = "gpt-5-mini" ->
         ModelsDevModel("gpt-5-mini", "GPT-5-mini", FALSE, TRUE, TRUE, 0, 64000, "beta")
    [] k = "claude-sonnet-4" ->
         ModelsDevModel("claude-sonnet-4", "Claude Sonnet 4", FALSE, FALSE, FALSE, 0, 0, "")
    [] k = "o1-preview" ->
         ModelsDevModel("o1-preview", "o1-preview", FALSE, TRUE, FALSE, 128000, 32768,
                        "deprecated")

\* catwalk.Model with the fields convertModels and DefaultModels fill in.
CatwalkModel(id, name, images, maxTokens, window, reason) ==
  [ID |-> id, Name |-> name, SupportsImages |-> images, DefaultMaxTokens |-> maxTokens,
   ContextWindow |-> window, CanReason |-> reason]

\* What the GET of models.dev gives FetchModels: a failed request, or a
\* status and a body that can be read or not, parsed or not, and that has
\* the provider github-copilot or not, with the keys of its models.
ModelsReply(failed, status, readable, parsable, hasProvider, keys) ==
  [failed |-> failed, status |-> status, readable |-> readable, parsable |-> parsable,
   hasProvider |-> hasProvider, keys |-> keys]

ModelsReplies ==
  {ModelsReply(TRUE, 0, FALSE, FALSE, FALSE, {}),
   ModelsReply(FALSE, 404, TRUE, FALSE, FALSE, {}),
   ModelsReply(FALSE, 500, TRUE, TRUE, TRUE, {"gpt-4.1"}),
   ModelsReply(FALSE, 200, FALSE, FALSE, FALSE, {}),
   ModelsReply(FALSE, 200, TRUE, FALSE, FALSE, {}),
   ModelsReply(FALSE, 200, TRUE, TRUE, FALSE, {})}
  \cup {ModelsReply(FALSE, 200, TRUE, TRUE, TRUE, keys) : keys \in SUBSET ModelKeys}

\* The orders in which "for _, m := range models" may visit the keys.
RangeOrders(keys) ==
  {o \in [1 .. Cardinality(keys) -> keys] : \A i, j \in DOMAIN o : i # j => o[i] # o[j]}

\* ([]catwalk.Model, error) of FetchModels.
Fetched(models, error) == [models |-> models, err |-> error]

\* No function of the catalogue has been called.
NoModelsCall ==
  [op |-> "none", reply |-> ModelsReply(TRUE, 0, FALSE, FALSE, FALSE, {}), order |-> <<>>,
   out |-> <<>>, err |-> NoErr]

(***************************************************************************)
(* State.                                                                  *)
(***************************************************************************)
VARIABLES
  copilotToken,  \* Transport.copilotToken, the cached short-lived token
  tokenSaver,    \* whether Transport.tokenSaver is non-nil
  muReaders,     \* goroutines that hold Transport.mu for reading
  muWriter,      \* the goroutine that holds Transport.mu for writing, or 0
  now,           \* time.Now().Unix()
  pc,            \* where each goroutine stands
  calls,         \* calls made on the Transport so far
  req,           \* the caller's request of the RoundTrip in progress
  reqCopy,       \* the clone RoundTrip hands to the underlying transport
  token,         \* the token getValidToken returned to RoundTrip
  err,           \* the error getValidToken returned to RoundTrip
  oauthToken,    \* getValidToken's oauthToken, the provider's credential
  provided,      \* what the provider callback returned in this call
  exchanged,     \* what ExchangeForCopilotToken returned in this call
  result,        \* what the last RoundTrip of the goroutine returned
  saveErr,       \* whether the saver callback of this call returned an error
  path,          \* how the call in progress came by its token
  nExchange,     \* calls of ExchangeForCopilotToken so far
  cold,          \* history: the cache started empty and every refresh so far
                 \* was an exchange that gave a token still good now
  missExch,      \* history: exchanges called since the callers now on the
                 \* miss path began to gather
  missClean,     \* history: since then no exchange failed or gave an unusable
                 \* token, and neither ClearCache nor the clock emptied the cache
  cleared        \* history: "never" before the first ClearCache returns,
                 \* "cleared" from then until the provider is called,
                 \* "refreshing" after that, until the next ClearCache

VARIABLES
  pollPc,        \* where the call of PollForToken stands
  pollInterval,  \* PollForToken's interval, in seconds
  pollI,         \* PollForToken's loop counter i
  pollCancelled, \* whether ctx.Done() of the call is closed
  pollTimer,     \* the timer of time.After: "off", "armed" or "fired"
  pollAttempts,  \* calls of pollOnce started so far
  pollWaits,     \* history: the waits that ended with the timer, each with
                 \* the interval it was armed with and the ticks it lasted
  pollReplies,   \* history: the outcomes of pollOnce so far
  pollLate,      \* history: pollOnce was started after the cancellation
  pollResult     \* what PollForToken returned

VARIABLES
  xTok,          \* the *oauth.Token the expiry functions are applied to
  xCop,          \* the *CopilotToken the expiry function is applied to
  xNow,          \* time.Now().Unix() of the expiry functions
  xOut,          \* the last expiry function applied, its time and result
  xSet,          \* the last SetExpiresAt: its time and the token before it
  exOut          \* the last call of ExchangeForCopilotToken or ValidateToken

VARIABLES
  dialog,        \* the OAuth2 struct of the dialog
  dSessions,     \* the polling sessions Update has started, in order
  dPending,      \* startDeviceFlow commands issued and not run yet
  dMsgs,         \* messages the commands have sent, not yet given to Update
  dOps,          \* calls made on the dialog by its owner so far
  dFlows,        \* startDeviceFlow commands issued so far
  dOut           \* the last call made by the owner: the struct before it and
                 \* the commands it returned

VARIABLES
  dTok           \* the last call of OAuth2.Token()

VARIABLES
  mOut           \* the last call of FetchModels, GetModels or DefaultModels

VARIABLES
  base,          \* Transport.base, the underlying transport
  baseArg        \* the argument of each goroutine's SetBaseTransport in
                 \* progress, "" when there is none

xvars == <<xTok, xCop, xNow, xOut, xSet>>
evars == <<exOut>>
dvars == <<dialog, dSessions, dPending, dMsgs, dOps, dFlows, dOut>>
mvars == <<mOut>>
bvars == <<base, baseArg>>
kvars == <<dTok>>

pvars == <<pollPc, pollInterval, pollI, pollCancelled, pollTimer, pollAttempts,
           pollWaits, pollReplies, pollLate, pollResult>>

tvars == <<copilotToken, tokenSaver, muReaders, muWriter>>
lvars == <<req, reqCopy, token, err, oauthToken, provided, exchanged, result, saveErr, path>>
cvars == <<nExchange, cold, missExch, missClean, cleared>>
vars == <<tvars, now, pc, calls, lvars, cvars>>
allvars == <<vars, pvars, xvars, evars, dvars, mvars, bvars, kvars>>

\* NewTransport: no cached token, no lock held; the saver is optional.
NewTransport ==
  /\ copilotToken = NilCopilotToken
  /\ tokenSaver \in BOOLEAN
  /\ muReaders = {}
  /\ muWriter = 0
  /\ now = 0
  /\ pc = [p \in Procs |-> "idle"]
  /\ calls = 0
  /\ req = [p \in Procs |-> NoRequest]
  /\ reqCopy = [p \in Procs |-> NoRequest]
  /\ token = [p \in Procs |-> ""]
  /\ err = [p \in Procs |-> NoErr]
  /\ oauthToken = [p \in Procs |-> NilOAuthToken]
  /\ provided = [p \in Procs |-> NotProvided]
  /\ exchanged = [p \in Procs |-> NotExchanged]
  /\ result = [p \in Procs |-> NoResult]
  /\ saveErr = [p \in Procs |-> FALSE]
  /\ path = [p \in Procs |-> "none"]
  /\ nExchange = 0
  /\ cold = TRUE
  /\ missExch = 0
  /\ missClean = TRUE
  /\ cleared = "never"

\* No call of PollForToken has been made.
PollIdle ==
  /\ pollPc = "idle"
  /\ pollInterval = 0
  /\ pollI = 0
  /\ pollCancelled = FALSE
  /\ pollTimer = "off"
  /\ pollAttempts = 0
  /\ pollWaits = <<>>
  /\ pollReplies = <<>>
  /\ pollLate = FALSE
  /\ pollResult = NotReturned

\* No expiry function has been applied.
ExpiryIdle ==
  /\ xTok = NilToken
  /\ xCop = NilCopilotToken
  /\ xNow = 0
  /\ xOut = NoCall
  /\ xSet = NotSet

\* No exchange has been made outside the Transport.
ExchangeIdle == exOut = NotCalled

\* The dialog as NewOAuth2 leaves it.
DialogIdle ==
  /\ dialog = NewOAuth2
  /\ dSessions = <<>>
  /\ dPending = 0
  /\ dMsgs = <<>>
  /\ dOps = 0
  /\ dFlows = 0
  /\ dOut = NoOp

\* No function of the model catalogue has been called.
ModelsIdle == mOut = NoModelsCall

\* NewTransport: base is http.DefaultTransport.
BaseIdle == base = "http.DefaultTransport" /\ baseArg = [p \in Procs |-> ""]

\* What the specifications of the other parts leave as it is.
TokenIdle == dTok = NoTokenCall

OthersIdle == DialogIdle /\ ModelsIdle /\ BaseIdle /\ TokenIdle

\* The Transport as NewTransport leaves it; nothing else is in progress.
Init == NewTransport /\ PollIdle /\ ExpiryIdle /\ ExchangeIdle /\ OthersIdle

(***************************************************************************)
(* sync.RWMutex.                                                           *)
(***************************************************************************)
\* RLock returns when no writer holds the lock.
CanRLock == muWriter = 0
\* A slip in getValidToken: the refresh runs under a lock that lets a second
\* writer in (as a read lock would).
CanLockShared == muReaders = {}
\* Lock returns when nobody holds the lock.
CanLock == muWriter = 0 /\ muReaders = {}

(***************************************************************************)
(* History of the miss path.                                               *)
(***************************************************************************)
\* The goroutine is past the first check and has not left getValidToken.
InMiss(q) == pc[q] \in {"Lock", "Check2", "Provider", "InExchange", "Save"}

\* p leaves getValidToken from the miss path; clean says whether its last
\* step left the cache usable. The history ends with the last to leave.
MissLeave(p, clean) ==
  IF \E q \in Procs \ {p} : InMiss(q)
    THEN /\ missExch' = missExch
         /\ missClean' = (missClean /\ clean)
    ELSE /\ missExch' = 0
         /\ missClean' = TRUE

(***************************************************************************)
(* Transport.RoundTrip and Transport.getValidToken.                        *)
(***************************************************************************)
\* A goroutine calls RoundTrip(r): the locals of the call are fresh.
CallRoundTrip(p, r) ==
  /\ pc[p] = "idle"
  /\ calls < MaxCalls
  /\ calls' = calls + 1
  /\ pc' = [pc EXCEPT ![p] = "RLock"]
  /\ req' = [req EXCEPT ![p] = r]
  /\ reqCopy' = [reqCopy EXCEPT ![p] = NoRequest]
  /\ result' = [result EXCEPT ![p] = NoResult]
  /\ UNCHANGED <<tvars, now, token, err, oauthToken, provided, exchanged, saveErr,
                 path, cvars>>

\* getValidToken: t.mu.RLock()
RLock(p) ==
  /\ pc[p] = "RLock"
  /\ CanRLock
  /\ muReaders' = muReaders \cup {p}
  /\ pc' = [pc EXCEPT ![p] = "Check1"]
  /\ UNCHANGED <<copilotToken, tokenSaver, muWriter, now, calls, lvars, cvars>>

\* The cache check "t.copilotToken != nil && !t.copilotToken.IsExpired()".
CacheValid == ~copilotToken.isNil /\ ~IsExpired(copilotToken, now)

\* getValidToken: the check under the read lock; a hit returns the cached
\* value, a miss goes on to t.mu.Lock(). Either way the read lock is released.
Check1(p) ==
  /\ pc[p] = "Check1"
  /\ muReaders' = muReaders \ {p}
  /\ IF CacheValid
       THEN /\ token' = [token EXCEPT ![p] = copilotToken.Token]
            /\ path' = [path EXCEPT ![p] = "hit"]
            /\ pc' = [pc EXCEPT ![p] = "Send"]
            /\ UNCHANGED <<missExch, missClean>>
       ELSE /\ pc' = [pc EXCEPT ![p] = "Lock"]
            /\ IF \E q \in Procs : InMiss(q)
                 THEN UNCHANGED <<missExch, missClean>>
                 ELSE missExch' = 0 /\ missClean' = TRUE
            /\ UNCHANGED <<token, path>>
  /\ UNCHANGED <<copilotToken, tokenSaver, muWriter, now, calls, req, reqCopy, err,
                 oauthToken, provided, exchanged, result, saveErr, nExchange, cold,
                 cleared>>

\* getValidToken: t.mu.Lock(); defer t.mu.Unlock()
Lock(p) ==
  /\ pc[p] = "Lock"
  /\ CanLock
  /\ muWriter' = p
  /\ pc' = [pc EXCEPT ![p] = "Check2"]
  /\ UNCHANGED <<copilotToken, tokenSaver, muReaders, now, calls, lvars, cvars>>

\* A slip in getValidToken: no second check under the write lock.
Check2Skipped(p) ==
  /\ pc[p] = "Check2"
  /\ pc' = [pc EXCEPT ![p] = "Provider"]
  /\ UNCHANGED <<tvars, now, calls, lvars, cvars>>

\* A slip in getValidToken: the second check throws a stale token away.
Check2DropsStale(p) ==
  /\ pc[p] = "Check2"
  /\ IF CacheValid
       THEN /\ token' = [token EXCEPT ![p] = copilotToken.Token]
            /\ path' = [path EXCEPT ![p] = "recheck"]
            /\ muWriter' = 0
            /\ pc' = [pc EXCEPT ![p] = "Send"]
            /\ MissLeave(p, TRUE)
            /\ UNCHANGED copilotToken
       ELSE /\ pc' = [pc EXCEPT ![p] = "Provider"]
            /\ copilotToken' = NilCopilotToken
            /\ UNCHANGED <<token, path, muWriter, missExch, missClean>>
  /\ UNCHANGED <<tokenSaver, muReaders, now, calls, req, reqCopy, err,
                 oauthToken, provided, exchanged, result, saveErr, nExchange, cold,
                 cleared>>

\* getValidToken: the second check, under the write lock.
Check2(p) ==
  /\ pc[p] = "Check2"
  /\ IF CacheValid
       THEN /\ token' = [token EXCEPT ![p] = copilotToken.Token]
            /\ path' = [path EXCEPT ![p] = "recheck"]
            /\ muWriter' = 0
            /\ pc' = [pc EXCEPT ![p] = "Send"]
            /\ MissLeave(p, TRUE)
       ELSE /\ pc' = [pc EXCEPT ![p] = "Provider"]
            /\ UNCHANGED <<token, path, muWriter, missExch, missClean>>
  /\ UNCHANGED <<copilotToken, tokenSaver, muReaders, now, calls, req, reqCopy, err,
                 oauthToken, provided, exchanged, result, saveErr, nExchange, cold,
                 cleared>>

\* The credential lets getValidToken go on to the exchange: it is there, its
\* secret is not empty and its persisted Copilot token is not good any more.
NeedsExchange(r, at) ==
  /\ r.err = NoErr
  /\ ~r.tok.isNil
  /\ r.tok.RefreshToken # ""
  /\ IsCopilotTokenExpired(r.tok, at)

\* getValidToken: the provider callback is called and answers r. An error, a
\* nil credential or an empty secret ends the call; a persisted token that is
\* still good is adopted; otherwise ExchangeForCopilotToken is called.
Provider(p, r) ==
  /\ pc[p] = "Provider"
  /\ provided' = [provided EXCEPT ![p] = r]
  /\ oauthToken' = [oauthToken EXCEPT ![p] = r.tok]
  /\ cleared' = (IF cleared = "never" THEN "never" ELSE "refreshing")
  /\ cold' = (cold /\ NeedsExchange(r, now))
  /\ IF r.err # NoErr
       THEN /\ err' = [err EXCEPT ![p] = r.err]
            /\ muWriter' = 0
            /\ pc' = [pc EXCEPT ![p] = "Send"]
            /\ MissLeave(p, TRUE)
            /\ UNCHANGED <<copilotToken, token, path, nExchange>>
     ELSE IF r.tok.isNil \/ r.tok.RefreshToken = ""
       THEN /\ err' = [err EXCEPT ![p] = NoTokenErr]
            /\ muWriter' = 0
            /\ pc' = [pc EXCEPT ![p] = "Send"]
            /\ MissLeave(p, TRUE)
            /\ UNCHANGED <<copilotToken, token, path, nExchange>>
     ELSE IF ~IsCopilotTokenExpired(r.tok, now)
       THEN /\ copilotToken' = CopilotToken(r.tok.CopilotToken, r.tok.CopilotExpiresAt)
            /\ token' = [token EXCEPT ![p] = r.tok.CopilotToken]
            /\ path' = [path EXCEPT ![p] = "adopt"]
            /\ muWriter' = 0
            /\ pc' = [pc EXCEPT ![p] = "Send"]
            /\ MissLeave(p, TRUE)
            /\ UNCHANGED <<err, nExchange>>
     ELSE /\ nExchange' = nExchange + 1
          /\ missExch' = missExch + 1
          /\ pc' = [pc EXCEPT ![p] = "InExchange"]
          /\ UNCHANGED <<copilotToken, token, err, path, muWriter, missClean>>
  /\ UNCHANGED <<tokenSaver, muReaders, now, calls, req, reqCopy, exchanged, result,
                 saveErr>>

\* getValidToken: ExchangeForCopilotToken returns for the reply of the
\* endpoint. An error ends the call; a token is stored in the cache and, when
\* a saver is configured, written into the credential for the saver.
ExchangeReturn(p, reply) ==
  /\ pc[p] = "InExchange"
  /\ LET r == ExchangeForCopilotToken(reply)
         usable == r.err = NoErr /\ ~IsExpired(r.tok, now)
     IN
     /\ exchanged' = [exchanged EXCEPT ![p] = r]
     /\ cold' = (cold /\ usable)
     /\ IF r.err # NoErr
          THEN /\ err' = [err EXCEPT ![p] = r.err]
               /\ muWriter' = 0
               /\ pc' = [pc EXCEPT ![p] = "Send"]
               /\ MissLeave(p, FALSE)
               /\ UNCHANGED <<copilotToken, token, path, oauthToken>>
        ELSE IF tokenSaver
          THEN /\ copilotToken' = r.tok
               /\ oauthToken' = [oauthToken EXCEPT ![p] =
                    [@ EXCEPT !.CopilotToken = r.tok.Token,
                              !.CopilotExpiresAt = r.tok.ExpiresAt]]
               /\ pc' = [pc EXCEPT ![p] = "Save"]
               /\ missClean' = (missClean /\ usable)
               /\ UNCHANGED <<token, err, path, muWriter, missExch>>
        ELSE /\ copilotToken' = r.tok
             /\ token' = [token EXCEPT ![p] = r.tok.Token]
             /\ path' = [path EXCEPT ![p] = "exchange"]
             /\ muWriter' = 0
             /\ pc' = [pc EXCEPT ![p] = "Send"]
             /\ MissLeave(p, usable)
             /\ UNCHANGED <<err, oauthToken>>
  /\ UNCHANGED <<tokenSaver, muReaders, now, calls, req, reqCopy, provided, result,
                 saveErr, nExchange, cleared>>

\* A slip in getValidToken: a saver that fails is called again.
SaveRetries(p, failed) ==
  /\ pc[p] = "Save"
  /\ saveErr' = [saveErr EXCEPT ![p] = failed]
  /\ IF failed
       THEN UNCHANGED <<token, path, muWriter, pc, missExch, missClean>>
       ELSE /\ token' = [token EXCEPT ![p] = exchanged[p].tok.Token]
            /\ path' = [path EXCEPT ![p] = "exchange"]
            /\ muWriter' = 0
            /\ pc' = [pc EXCEPT ![p] = "Send"]
            /\ MissLeave(p, TRUE)
  /\ UNCHANGED <<copilotToken, tokenSaver, muReaders, now, calls, req, reqCopy, err,
                 oauthToken, provided, exchanged, result, nExchange, cold, cleared>>

\* A slip in getValidToken: the saver's error is returned to the caller.
SaveErrorReturned(p, failed) ==
  /\ pc[p] = "Save"
  /\ saveErr' = [saveErr EXCEPT ![p] = failed]
  /\ IF failed
       THEN /\ err' = [err EXCEPT ![p] = Err("failed to persist Copilot token", 0, NoBody)]
            /\ UNCHANGED <<token, path>>
       ELSE /\ token' = [token EXCEPT ![p] = exchanged[p].tok.Token]
            /\ path' = [path EXCEPT ![p] = "exchange"]
            /\ UNCHANGED err
  /\ muWriter' = 0
  /\ pc' = [pc EXCEPT ![p] = "Send"]
  /\ MissLeave(p, TRUE)
  /\ UNCHANGED <<copilotToken, tokenSaver, muReaders, now, calls, req, reqCopy,
                 oauthToken, provided, exchanged, result, nExchange, cold, cleared>>

\* getValidToken: the saver callback returns, with an error (failed) or
\* without; the error is logged and the exchanged token is returned either way.
Save(p, failed) ==
  /\ pc[p] = "Save"
  /\ saveErr' = [saveErr EXCEPT ![p] = failed]
  /\ token' = [token EXCEPT ![p] = exchanged[p].tok.Token]
  /\ path' = [path EXCEPT ![p] = "exchange"]
  /\ muWriter' = 0
  /\ pc' = [pc EXCEPT ![p] = "Send"]
  /\ MissLeave(p, TRUE)
  /\ UNCHANGED <<copilotToken, tokenSaver, muReaders, now, calls, req, reqCopy, err,
                 oauthToken, provided, exchanged, result, nExchange, cold, cleared>>

\* RoundTrip after getValidToken returned (failed: with an error): an error
\* is returned with a nil response;
\* otherwise the request is cloned, the headers are set on the clone, and
\* the underlying transport's outcome is returned as it is. The locals of
\* the call end with it.
RoundTripFrom(p, outcome, failed) ==
  /\ pc[p] = "Send"
  /\ pc' = [pc EXCEPT ![p] = "idle"]
  /\ IF failed
       THEN /\ result' = [result EXCEPT ![p] = Result("nil", err[p])]
            /\ UNCHANGED <<req, reqCopy>>
       ELSE /\ reqCopy' = [reqCopy EXCEPT ![p] =
                 Request(OutgoingHeaders(req[p].Header, token[p]))]
            /\ req' = [req EXCEPT ![p] =
                 Request(OriginalAfterRoundTrip(req[p].Header, token[p]))]
            /\ result' = [result EXCEPT ![p] = outcome]
  /\ token' = [token EXCEPT ![p] = ""]
  /\ err' = [err EXCEPT ![p] = NoErr]
  /\ oauthToken' = [oauthToken EXCEPT ![p] = NilOAuthToken]
  /\ provided' = [provided EXCEPT ![p] = NotProvided]
  /\ exchanged' = [exchanged EXCEPT ![p] = NotExchanged]
  /\ saveErr' = [saveErr EXCEPT ![p] = FALSE]
  /\ path' = [path EXCEPT ![p] = "none"]
  /\ UNCHANGED <<tvars, now, calls, cvars>>

\* A slip in RoundTrip: the error of getValidToken is not looked at.
RoundTripSendUnchecked(p, outcome) == RoundTripFrom(p, outcome, FALSE)

RoundTripSend(p, outcome) == RoundTripFrom(p, outcome, err[p] # NoErr)

(***************************************************************************)
(* Transport.ClearCache.                                                   *)
(***************************************************************************)
\* ClearCache: t.mu.Lock(); defer t.mu.Unlock()
ClearCacheLock(p) ==
  /\ pc[p] = "idle"
  /\ calls < MaxCalls
  /\ CanLock
  /\ calls' = calls + 1
  /\ muWriter' = p
  /\ pc' = [pc EXCEPT ![p] = "Clear"]
  /\ UNCHANGED <<copilotToken, tokenSaver, muReaders, now, lvars, cvars>>

\* ClearCache's body with the value it leaves in the cache, and the deferred
\* unlock.
ClearCacheTo(p, cache) ==
  /\ pc[p] = "Clear"
  /\ copilotToken' = cache
  /\ muWriter' = 0
  /\ pc' = [pc EXCEPT ![p] = "idle"]
  /\ cleared' = "cleared"
  /\ cold' = FALSE
  /\ missClean' = (missClean /\ ~\E q \in Procs : InMiss(q))
  /\ UNCHANGED <<tokenSaver, muReaders, now, calls, lvars, nExchange, missExch>>

\* A slip in ClearCache: the token object is emptied in place, its value
\* cleared and its expiry left as it is.
ClearCacheInPlace(p) ==
  ClearCacheTo(p, IF copilotToken.isNil THEN copilotToken
                  ELSE [copilotToken EXCEPT !.Token = ""])

\* A slip in ClearCache: a token that is still good is kept.
ClearCacheKeepsGood(p) ==
  ClearCacheTo(p, IF CacheValid THEN copilotToken ELSE NilCopilotToken)

\* A slip in ClearCache: the lock is not released.
ClearCacheHoldsLock(p) ==
  /\ pc[p] = "Clear"
  /\ copilotToken' = NilCopilotToken
  /\ pc' = [pc EXCEPT ![p] = "idle"]
  /\ cleared' = "cleared"
  /\ cold' = FALSE
  /\ missClean' = (missClean /\ ~\E q \in Procs : InMiss(q))
  /\ UNCHANGED <<tokenSaver, muReaders, muWriter, now, calls, lvars, nExchange, missExch>>

\* ClearCache: t.copilotToken = nil
ClearCache(p) == ClearCacheTo(p, NilCopilotToken)

(***************************************************************************)
(* The clock.                                                              *)
(***************************************************************************)
\* A second passes; the cached token may run out.
Tick ==
  /\ now < MaxTime
  /\ now' = now + 1
  /\ LET runsOut == CacheValid /\ IsExpired(copilotToken, now + 1) IN
     /\ cold' = (cold /\ ~runsOut)
     /\ missClean' = (missClean /\ ~(runsOut /\ \E q \in Procs : InMiss(q)))
  /\ UNCHANGED <<tvars, pc, calls, lvars, nExchange, missExch, cleared>>

Next ==
  \/ \E p \in Procs, r \in Requests : CallRoundTrip(p, r) /\ UNCHANGED <<pvars, xvars, evars, dvars, mvars, bvars, kvars>>
  \/ \E p \in Procs : RLock(p) /\ UNCHANGED <<pvars, xvars, evars, dvars, mvars, bvars, kvars>>
  \/ \E p \in Procs : Check1(p) /\ UNCHANGED <<pvars, xvars, evars, dvars, mvars, bvars, kvars>>
  \/ \E p \in Procs : Lock(p) /\ UNCHANGED <<pvars, xvars, evars, dvars, mvars, bvars, kvars>>
  \/ \E p \in Procs : Check2(p) /\ UNCHANGED <<pvars, xvars, evars, dvars, mvars, bvars, kvars>>
  \/ \E p \in Procs, r \in ProviderResults : Provider(p, r) /\ UNCHANGED <<pvars, xvars, evars, dvars, mvars, bvars, kvars>>
  \/ \E p \in Procs, reply \in ExchangeReplies : ExchangeReturn(p, reply) /\ UNCHANGED <<pvars, xvars, evars, dvars, mvars, bvars, kvars>>
  \/ \E p \in Procs, failed \in BOOLEAN : Save(p, failed) /\ UNCHANGED <<pvars, xvars, evars, dvars, mvars, bvars, kvars>>
  \/ \E p \in Procs, outcome \in BaseOutcomes : RoundTripSend(p, outcome) /\ UNCHANGED <<pvars, xvars, evars, dvars, mvars, bvars, kvars>>
  \/ \E p \in Procs : ClearCacheLock(p) /\ UNCHANGED <<pvars, xvars, evars, dvars, mvars, bvars, kvars>>
  \/ \E p \in Procs : ClearCache(p) /\ UNCHANGED <<pvars, xvars, evars, dvars, mvars, bvars, kvars>>
  \/ Tick /\ UNCHANGED <<pvars, xvars, evars, dvars, mvars, bvars, kvars>>

Spec == Init /\ [][Next]_allvars

(***************************************************************************)
(* Properties of the caching Transport.                                    *)
(***************************************************************************)
\* The Authorization header RoundTrip writes for a token.
Bearer(tok) == <<"Bearer", tok>>

\* The fixed-buffer rule in plain integers: the token has a value and
\* at < expiresAt - 60.
GoodAt(tok, exp, at) == tok # "" /\ at < exp - ExpiryBuffer

\* C1: from an empty cache, with every provider answer a credential that has
\* no good persisted token and every exchange answered by a token that is
\* still good, concurrent RoundTrip calls make exactly one exchange between
\* them and every request handed to the underlying transport carries
\* "Bearer <that token>".
C1_OneExchangeForAll ==
  cold =>
    /\ nExchange <= 1
    /\ \A p \in Procs :
         /\ err[p] = NoErr
         /\ (pc[p] = "idle" /\ result[p] # NoResult) => reqCopy[p].built
         /\ reqCopy[p].built =>
              /\ nExchange = 1
              /\ ~copilotToken.isNil
              /\ reqCopy[p].Header["Authorization"] = Bearer(copilotToken.Token)

\* C1 witness: every caller has made one call from the cold cache and sent
\* its request, after one exchange.
C1_Witness ==
  /\ cold
  /\ calls = NumCallers
  /\ nExchange = 1
  /\ \A p \in Procs : pc[p] = "idle" /\ reqCopy[p].built

\* C2: ExchangeForCopilotToken is in progress in at most one goroutine at a
\* time, and that goroutine holds the write lock.
C2_ExchangeUnderLock ==
  /\ \A p \in Procs : pc[p] = "InExchange" => muWriter = p
  /\ Cardinality({p \in Procs : pc[p] = "InExchange"}) <= 1

\* C2 witness: one caller is in the exchange while another, which saw the
\* same miss, waits for the write lock.
C2_Witness ==
  \E p, q \in Procs : p # q /\ pc[p] = "InExchange" /\ pc[q] = "Lock"

\* C3: whenever getValidToken returns a token without an error, on a cache
\* hit, on adoption or after an exchange, the token is not empty and it is
\* not expired at that moment: now < expiresAt - 60.
C3_ReturnedTokenIsGood ==
  [][\A p \in Procs :
       (pc[p] # "Send" /\ pc'[p] = "Send" /\ err'[p] = NoErr) =>
         /\ ~copilotToken'.isNil
         /\ token'[p] = copilotToken'.Token
         /\ GoodAt(token'[p], copilotToken'.ExpiresAt, now')]_vars

C5_RequestNotMutated ==
  [][\A p \in Procs : pc[p] # "idle" => req'[p] = req[p]]_vars

\* C5 witness: a RoundTrip has returned after sending a clone whose headers
\* differ from those of the caller's request, which carries its own
\* Authorization header.
C5_Witness ==
  \E p \in Procs :
    /\ pc[p] = "idle"
    /\ reqCopy[p].built
    /\ req[p].Header["Authorization"] = Bearer("caller-token")
    /\ reqCopy[p].Header["Authorization"] # req[p].Header["Authorization"]
    /\ reqCopy[p].Header["User-Agent"] # req[p].Header["User-Agent"]

\* C6: a first check made while the cache holds a non-empty token with
\* now < expiresAt - 60 returns the cached value; the call goes neither to
\* the provider nor to the exchange nor to the saver, the cache stays as it
\* is, and the request is sent with the cached value.
C6_CacheHitCallsNothing ==
  [][\A p \in Procs :
       /\ ( /\ pc[p] = "Check1" /\ pc'[p] # "Check1"
            /\ ~copilotToken.isNil
            /\ GoodAt(copilotToken.Token, copilotToken.ExpiresAt, now) ) =>
            /\ pc'[p] = "Send"
            /\ path'[p] = "hit"
            /\ token'[p] = copilotToken.Token
            /\ err'[p] = NoErr
            /\ ~provided'[p].called /\ ~exchanged'[p].called
            /\ nExchange' = nExchange
            /\ copilotToken' = copilotToken
       /\ (pc[p] = "Send" /\ pc'[p] = "idle" /\ path[p] = "hit") =>
            /\ reqCopy'[p].Header["Authorization"] = Bearer(token[p])
            /\ copilotToken' = copilotToken
            /\ nExchange' = nExchange]_vars

\* C6 witness: a call has taken the cached value at the first check, and the
\* cache still holds that value, unexpired.
C6_Witness ==
  \E p \in Procs :
    /\ pc[p] = "Send" /\ path[p] = "hit"
    /\ ~copilotToken.isNil
    /\ token[p] = copilotToken.Token
    /\ GoodAt(copilotToken.Token, copilotToken.ExpiresAt, now)

\* The provider's answer carries a persisted token that is non-empty and not
\* expired under the fixed-buffer rule.
PersistedGood(r, at) ==
  /\ r.called /\ r.err = NoErr /\ ~r.tok.isNil
  /\ GoodAt(r.tok.CopilotToken, r.tok.CopilotExpiresAt, at)

\* The call adopted the persisted pair of its credential: the pair is in the
\* cache and is returned, with no exchange and no saver call.
Adopted(p) ==
  /\ pc'[p] = "Send"
  /\ path'[p] = "adopt"
  /\ err'[p] = NoErr
  /\ copilotToken' = CopilotToken(provided'[p].tok.CopilotToken,
                                  provided'[p].tok.CopilotExpiresAt)
  /\ token'[p] = provided'[p].tok.CopilotToken
  /\ ~exchanged'[p].called
  /\ nExchange' = nExchange

\* C7 as claimed: on a miss, a credential from the provider that carries a
\* good persisted token has that pair adopted, with no exchange.
C7_AdoptsAnyGoodPersisted ==
  [][\A p \in Procs :
       (pc[p] = "Provider" /\ pc'[p] # "Provider" /\ PersistedGood(provided'[p], now))
         => Adopted(p)]_vars

\* C7 as amended: on a miss, a credential from the provider that has a
\* non-empty long-lived secret and carries a good persisted token has exactly
\* that pair adopted into the cache and sent, with no exchange and no saver
\* call.
C7_AdoptsGoodPersistedOfCredential ==
  [][\A p \in Procs :
       /\ ( /\ pc[p] = "Provider" /\ pc'[p] # "Provider"
            /\ PersistedGood(provided'[p], now)
            /\ provided'[p].tok.RefreshToken # "" ) => Adopted(p)
       /\ (pc[p] = "Send" /\ pc'[p] = "idle" /\ path[p] = "adopt") =>
            /\ reqCopy'[p].Header["Authorization"] =
                 Bearer(provided[p].tok.CopilotToken)
            /\ ~exchanged[p].called /\ ~saveErr[p]
            /\ nExchange' = nExchange]_vars

\* C7 witness: after a ClearCache by a goroutine that made no other call, a
\* RoundTrip has adopted the persisted token of its credential, and no
\* exchange was ever made.
C7_Witness ==
  \E p \in Procs :
    /\ pc[p] = "Send" /\ path[p] = "adopt"
    /\ cleared = "refreshing" /\ nExchange = 0
    /\ \A q \in Procs \ {p} : pc[q] = "idle" /\ result[q] = NoResult
    /\ copilotToken = CopilotToken("persisted", LateExpiry)
    /\ token[p] = "persisted"

\* The error token acquisition ends with, NoErr when it does not fail.
AcquisitionErr(p) ==
  IF provided[p].called /\ provided[p].err # NoErr THEN provided[p].err
  ELSE IF provided[p].called /\ (provided[p].tok.isNil \/ provided[p].tok.RefreshToken = "")
    THEN NoTokenErr
  ELSE IF exchanged[p].called THEN exchanged[p].err
  ELSE NoErr

\* C8: when the provider fails, or returns a nil credential or an empty
\* secret (no_token, and no exchange), or the exchange fails, RoundTrip
\* returns that error with a nil response and hands nothing to the
\* underlying transport.
C8_AcquisitionErrorReturned ==
  [][\A p \in Procs :
       (pc[p] = "Send" /\ pc'[p] = "idle" /\ AcquisitionErr(p) # NoErr) =>
         /\ result'[p] = Result("nil", AcquisitionErr(p))
         /\ ~reqCopy'[p].built
         /\ (AcquisitionErr(p) = NoTokenErr => ~exchanged[p].called)]_vars

\* C8 witness: a RoundTrip has returned the error of an exchange that found
\* no Copilot access, with a nil response and no request sent.
C8_Witness ==
  \E p \in Procs :
    /\ pc[p] = "idle"
    /\ result[p] = Result("nil", Err("no copilot access", 0, NoBody))
    /\ ~reqCopy[p].built

\* C9: when the saver returns an error after an exchange, getValidToken
\* still returns the exchanged token, which is in the cache, and RoundTrip
\* sends the request with it; a later check that finds this token in the
\* cache, unexpired, takes it without another exchange.
C9_SaverErrorIsNotFatal ==
  [][\A p \in Procs :
       /\ (pc[p] = "Save" /\ pc'[p] # "Save" /\ saveErr'[p]) =>
            /\ pc'[p] = "Send"
            /\ err'[p] = NoErr
            /\ token'[p] = exchanged[p].tok.Token
            /\ copilotToken' = exchanged[p].tok
       /\ (pc[p] = "Send" /\ pc'[p] = "idle" /\ saveErr[p]) =>
            /\ reqCopy'[p].built
            /\ reqCopy'[p].Header["Authorization"] = Bearer(exchanged[p].tok.Token)
       /\ \A q \in Procs \ {p} :
            ( /\ saveErr[p]
              /\ pc[q] \in {"Check1", "Check2"} /\ pc'[q] # pc[q]
              /\ copilotToken = exchanged[p].tok
              /\ GoodAt(copilotToken.Token, copilotToken.ExpiresAt, now) ) =>
              /\ pc'[q] = "Send"
              /\ token'[q] = exchanged[p].tok.Token
              /\ nExchange' = nExchange]_vars

\* C9 witness: the saver of one call failed, and a later check of another
\* call has taken the token of that exchange from the cache; one exchange
\* was made.
C9_Witness ==
  \E p, q \in Procs :
    /\ p # q
    /\ pc[p] = "Send" /\ saveErr[p] /\ err[p] = NoErr
    /\ pc[q] = "Send" /\ path[q] \in {"hit", "recheck"}
    /\ token[q] = token[p] /\ token[p] = exchanged[p].tok.Token
    /\ nExchange = 1

\* C10: when ClearCache returns the cache is empty whatever it held, and it
\* stays empty until the provider is called; a cache check made meanwhile is
\* a miss, and a call that came by its token on the miss path has called the
\* provider before it sends.
C10_ClearForcesRefresh ==
  /\ [](cleared = "cleared" => copilotToken.isNil)
  /\ [][\A p \in Procs :
          /\ (pc[p] = "Clear" /\ pc'[p] = "idle") =>
               (cleared' = "cleared" /\ copilotToken'.isNil)
          /\ (cleared = "cleared" /\ pc[p] = "Check1" /\ pc'[p] # "Check1") => pc'[p] = "Lock"
          /\ (cleared = "cleared" /\ pc[p] = "Check2" /\ pc'[p] # "Check2") => pc'[p] = "Provider"
          /\ (pc[p] = "Send" /\ pc'[p] = "idle" /\ reqCopy'[p].built
                /\ path[p] \notin {"hit", "recheck"}) => provided[p].called]_vars

\* C10 witness: ClearCache has emptied a cache that an exchange had filled,
\* and the next RoundTrip, past both checks, is about to call the provider.
C10_Witness ==
  \E p \in Procs :
    /\ cleared = "cleared" /\ nExchange = 1 /\ copilotToken.isNil
    /\ pc[p] = "Provider"
    /\ \A q \in Procs \ {p} : pc[q] = "idle"

\* C24: the cached token changes only by ClearCache (to nil), by the
\* adoption of a persisted token that is still good, or by a successful
\* exchange (to the token object of the result), each time in a step of the
\* holder of the exclusive lock; a refresh that fails with a provider error,
\* an empty credential or an exchange error leaves the cache as it was when
\* the refresh took the lock.
C24_CacheChangesOnlyByRefresh ==
  [][/\ copilotToken' # copilotToken =>
          \E p \in Procs :
            /\ muWriter = p
            /\ \/ pc[p] = "Clear" /\ copilotToken' = NilCopilotToken
               \/ /\ pc[p] = "Provider"
                  /\ provided'[p].err = NoErr
                  /\ ~IsCopilotTokenExpired(provided'[p].tok, now)
                  /\ copilotToken' = CopilotToken(provided'[p].tok.CopilotToken,
                                                  provided'[p].tok.CopilotExpiresAt)
               \/ /\ pc[p] = "InExchange"
                  /\ exchanged'[p].err = NoErr
                  /\ copilotToken' = exchanged'[p].tok
     /\ \A p \in Procs :
          /\ (pc[p] \in {"Provider", "InExchange"} /\ err'[p] # NoErr) =>
               copilotToken' = copilotToken
          /\ (pc[p] = "Check2" /\ pc'[p] # "Check2") => copilotToken' = copilotToken]_allvars

\* C24 witness: a refresh whose exchange failed has returned its error, and
\* the cache still holds the token that ran out before the call.
C24_Witness ==
  \E p \in Procs :
    /\ pc[p] = "Send"
    /\ exchanged[p].called /\ err[p] = exchanged[p].err /\ err[p] # NoErr
    /\ copilotToken = CopilotToken("copilot-A", SoonExpiry)
    /\ IsExpired(copilotToken, now)

\* C25: the saver is called once for each successful exchange of a Transport
\* that has a saver, after the cache has been set to the result, with a
\* credential whose Copilot token and expiry are those of the result; it is
\* not called on a cache hit, on adoption, on a failed refresh or when no
\* saver is configured, and its return ends the refresh.
C25_SaverOncePerExchange ==
  /\ [](\A p \in Procs :
          pc[p] = "Save" =>
            /\ tokenSaver
            /\ exchanged[p].called /\ exchanged[p].err = NoErr
            /\ copilotToken = exchanged[p].tok
            /\ oauthToken[p].CopilotToken = exchanged[p].tok.Token
            /\ oauthToken[p].CopilotExpiresAt = exchanged[p].tok.ExpiresAt)
  /\ [][\A p \in Procs :
          /\ (pc[p] # "Save" /\ pc'[p] = "Save") <=>
               /\ tokenSaver
               /\ pc[p] = "InExchange" /\ pc'[p] # "InExchange"
               /\ exchanged'[p].err = NoErr
          /\ (pc[p] = "Save" /\ <<pc[p], saveErr[p]>>' # <<pc[p], saveErr[p]>>) =>
               pc'[p] = "Send"]_allvars

\* C25 witness: the second successful exchange of a Transport has set the
\* cache, and the saver is being called with the credential that carries
\* the new token and expiry.
C25_Witness ==
  \E p \in Procs :
    /\ pc[p] = "Save"
    /\ nExchange = 2
    /\ copilotToken = CopilotToken("copilot-B", LateExpiry)
    /\ oauthToken[p] = OAuthToken("gho_x", "copilot-B", LateExpiry)

\* C26: getValidToken only reads the credential the provider returned: while
\* the call lasts the object is as the provider returned it.
C26_ProviderObjectOnlyRead ==
  \A p \in Procs :
    (provided[p].called /\ pc[p] # "idle") => oauthToken[p] = provided[p].tok

\* The (value, expiry) pairs that come together: in a body the exchange
\* endpoint answers with, or in a credential the provider returns.
ExchangePairs ==
  {CopilotToken(r.body.token, r.body.expires_at) :
     r \in {x \in ExchangeReplies : ~x.failed /\ x.status = 200 /\ x.body.parsable}}
ProviderPairs ==
  {CopilotToken(r.tok.CopilotToken, r.tok.CopilotExpiresAt) :
     r \in {x \in ProviderResults : x.err = NoErr /\ ~x.tok.isNil}}

\* C27: with RoundTrip and ClearCache calls running concurrently the cache
\* is nil or holds a (value, expiry) pair that one exchange result or one
\* provider credential gave together, and a caller that takes the cached
\* value takes it from the token whose expiry it has just checked.
C27_NoTornToken ==
  /\ [](copilotToken = NilCopilotToken \/ copilotToken \in ExchangePairs \cup ProviderPairs)
  /\ [][\A p \in Procs :
          (pc[p] \in {"Check1", "Check2"} /\ pc'[p] = "Send") =>
            /\ token'[p] = copilotToken.Token
            /\ ~IsExpired(copilotToken, now)
            /\ copilotToken' = copilotToken]_allvars

\* C27 witness: a caller has taken the value of a token on a cache hit and
\* has not sent its request yet, while a refresh of another caller has
\* replaced the token that ran out by the pair of a second exchange.
C27_Witness ==
  \E p, q \in Procs :
    /\ p # q
    /\ pc[p] = "Send" /\ path[p] = "hit" /\ token[p] = "copilot-A"
    /\ pc[q] = "Send" /\ path[q] = "exchange" /\ token[q] = "copilot-B"
    /\ copilotToken = CopilotToken("copilot-B", LateExpiry)
    /\ nExchange = 2

(***************************************************************************)
(* Transport.SetBaseTransport.                                             *)
(***************************************************************************)
\* The transports SetBaseTransport is called with.
Bases == {"http.DefaultTransport", "custom transport"}

\* What RoundTrip gives when its read of t.base meets a write in progress:
\* the interface value it calls is not one that was ever stored.
RacedOutcome == Result("undefined", NoErr)

\* A goroutine calls SetBaseTransport(b); no lock is taken.
SetBaseTransportCall(p, b) ==
  /\ pc[p] = "idle"
  /\ calls < MaxCalls
  /\ calls' = calls + 1
  /\ pc' = [pc EXCEPT ![p] = "SetBase"]
  /\ baseArg' = [baseArg EXCEPT ![p] = b]
  /\ UNCHANGED <<tvars, now, lvars, cvars, base>>

\* SetBaseTransport: t.base = base, and the return.
SetBaseTransport(p) ==
  /\ pc[p] = "SetBase"
  /\ base' = baseArg[p]
  /\ baseArg' = [baseArg EXCEPT ![p] = ""]
  /\ pc' = [pc EXCEPT ![p] = "idle"]
  /\ UNCHANGED <<tvars, now, calls, lvars, cvars>>

\* RoundTrip reads t.base, to call it, while a SetBaseTransport that has
\* not returned writes it: a data race.
RoundTripSendRaced(p) ==
  /\ err[p] = NoErr
  /\ \E q \in Procs : pc[q] = "SetBase"
  /\ RoundTripFrom(p, RacedOutcome, FALSE)
  /\ UNCHANGED bvars

BaseNext ==
  \/ Next
  \/ \E p \in Procs, b \in Bases :
       SetBaseTransportCall(p, b) /\ UNCHANGED <<pvars, xvars, evars, dvars, mvars, kvars>>
  \/ \E p \in Procs : SetBaseTransport(p) /\ UNCHANGED <<pvars, xvars, evars, dvars, mvars, kvars>>
  \/ \E p \in Procs : RoundTripSendRaced(p) /\ UNCHANGED <<pvars, xvars, evars, dvars, mvars, kvars>>

BaseSpec == Init /\ [][BaseNext]_allvars

\* C28: after construction nothing of the Transport but the cached token is
\* written while a call is in progress, and every write to the Transport is
\* a step of the goroutine that holds the exclusive lock: ClearCache, the
\* refresh, and SetBaseTransport.
C28_WritesUnderLock ==
  [][/\ tokenSaver' = tokenSaver
     /\ (\E q \in Procs : pc[q] \notin {"idle", "SetBase"}) => base' = base
     /\ \A p \in Procs : (pc[p] = "SetBase" /\ pc'[p] = "idle") => muWriter = p
     /\ copilotToken' # copilotToken =>
          \E p \in Procs : muWriter = p /\ pc'[p] # pc[p]]_allvars

(***************************************************************************)
(* PollForToken.                                                           *)
(***************************************************************************)
\* time.Duration(interval) * time.Second, as int64 multiplies.
TimerDuration(interval) == WrapInt(interval * Second)

\* How long a wait on time.After(d) lasts at least: a duration that is not
\* positive fires at once.
TimerTicks(d) == IF d <= 0 THEN 0 ELSE d

\* PollForToken is called: an interval under 5 is raised to 5.
PollCall(arg) ==
  /\ pollPc = "idle"
  /\ pollInterval' = (IF arg < MinInterval THEN MinInterval ELSE arg)
  /\ pollI' = 0
  /\ pollPc' = "loop"
  /\ UNCHANGED <<pollCancelled, pollTimer, pollAttempts, pollWaits, pollReplies,
                 pollLate, pollResult>>

\* The head of the loop with the condition under which it waits first.
PollLoopIf(waits) ==
  /\ pollPc = "loop"
  /\ IF waits
       THEN pollPc' = "select" /\ pollTimer' = "armed"
       ELSE pollPc' = "attempt" /\ UNCHANGED pollTimer
  /\ UNCHANGED <<pollInterval, pollI, pollCancelled, pollAttempts, pollWaits,
                 pollReplies, pollLate, pollResult>>

\* A slip in PollForToken: the first attempt waits too.
PollLoopAlwaysWaits == PollLoopIf(TRUE)

\* for i := 0; ; i++ { if i > 0 { select on ctx.Done() and time.After } ... }
PollLoop == PollLoopIf(pollI > 0)

\* The timer of time.After fires: its channel is ready.
PollTimerFires ==
  /\ pollPc = "select"
  /\ pollTimer = "armed"
  /\ pollTimer' = "fired"
  /\ UNCHANGED <<pollPc, pollInterval, pollI, pollCancelled, pollAttempts,
                 pollWaits, pollReplies, pollLate, pollResult>>

\* select takes case <-ctx.Done(): return "", ctx.Err(). When the timer's
\* channel is ready as well, select takes either case.
PollSelectDone ==
  /\ pollPc = "select"
  /\ pollCancelled
  /\ pollResult' = Returned("", CtxErr)
  /\ pollPc' = "done"
  /\ pollTimer' = "off"
  /\ UNCHANGED <<pollInterval, pollI, pollCancelled, pollAttempts, pollWaits,
                 pollReplies, pollLate>>

\* select takes case <-time.After(...): the wait is over.
PollSelectTimer ==
  /\ pollPc = "select"
  /\ pollTimer = "fired"
  /\ pollWaits' = Append(pollWaits,
       [interval |-> pollInterval,
        ticks |-> TimerTicks(TimerDuration(pollInterval))])
  /\ pollPc' = "attempt"
  /\ pollTimer' = "off"
  /\ UNCHANGED <<pollInterval, pollI, pollCancelled, pollAttempts, pollReplies,
                 pollLate, pollResult>>

\* pollOnce is called; nothing looks at the context before the call.
PollOnceStart ==
  /\ pollPc = "attempt"
  /\ pollAttempts < MaxAttempts
  /\ pollAttempts' = pollAttempts + 1
  /\ pollPc' = (IF pollCancelled THEN "pollOnceCancelled" ELSE "pollOnce")
  /\ pollLate' = (pollLate \/ pollCancelled)
  /\ UNCHANGED <<pollInterval, pollI, pollCancelled, pollTimer, pollWaits,
                 pollReplies, pollResult>>

\* A slip in the slow_down branch: the server's interval is taken as it is.
NextIntervalFromServer(c, s) == s

\* The slow_down branch: the interval after a slow_down that carries s.
NextInterval(c, s) == IF s > c THEN s ELSE WrapInt(c + SlowDownStep)

\* A slip in PollForToken: a result without an error is returned as it
\* is, with or without a token.
PollVerdictReturnsEmpty(r) ==
  IF r.err # NoPollErr
    THEN IF r.err.type = "OAuthError" /\ r.err.code = "authorization_pending"
           THEN "continue"
         ELSE IF r.err.type = "OAuthError" /\ r.err.code = "slow_down"
           THEN "slow_down"
         ELSE "return err"
    ELSE "return token"

\* What PollForToken does with a result of pollOnce.
PollVerdict(r) ==
  IF r.err # NoPollErr
    THEN IF r.err.type = "OAuthError" /\ r.err.code = "authorization_pending"
           THEN "continue"
         ELSE IF r.err.type = "OAuthError" /\ r.err.code = "slow_down"
           THEN "slow_down"
         ELSE "return err"
    ELSE IF r.token # "" THEN "return token" ELSE "continue"

\* pollOnce returns and PollForToken acts on its result. A call that was
\* started with a cancelled context gets the client's error.
PollOnceReturn(reply) ==
  /\ pollPc \in {"pollOnce", "pollOnceCancelled"}
  /\ pollPc = "pollOnceCancelled" => reply = CancelledReply
  /\ LET r == pollOnce(reply)
         v == PollVerdict(r) IN
     /\ pollReplies' = Append(pollReplies, r)
     /\ CASE v = "continue" ->
               /\ pollI' = pollI + 1
               /\ pollPc' = "loop"
               /\ UNCHANGED <<pollInterval, pollResult>>
          [] v = "slow_down" ->
               /\ pollInterval' = NextInterval(pollInterval, r.newInterval)
               /\ pollI' = pollI + 1
               /\ pollPc' = "loop"
               /\ UNCHANGED pollResult
          [] v = "return err" ->
               /\ pollResult' = Returned("", r.err)
               /\ pollPc' = "done"
               /\ UNCHANGED <<pollInterval, pollI>>
          [] v = "return token" ->
               /\ pollResult' = Returned(r.token, NoPollErr)
               /\ pollPc' = "done"
               /\ UNCHANGED <<pollInterval, pollI>>
  /\ UNCHANGED <<pollCancelled, pollTimer, pollAttempts, pollWaits, pollLate>>

\* The context of the call is cancelled, before or during the call.
PollCancel ==
  /\ ~pollCancelled
  /\ pollPc # "done"
  /\ pollCancelled' = TRUE
  /\ UNCHANGED <<pollPc, pollInterval, pollI, pollTimer, pollAttempts, pollWaits,
                 pollReplies, pollLate, pollResult>>

\* The Transport is not in use while the device flow runs.
TransportIdle == NewTransport /\ tokenSaver = FALSE

PollInit == TransportIdle /\ PollIdle /\ ExpiryIdle /\ ExchangeIdle /\ OthersIdle

PollNext ==
  \/ \E arg \in PollArgs : PollCall(arg) /\ UNCHANGED <<vars, xvars, evars, dvars, mvars, bvars, kvars>>
  \/ PollLoop /\ UNCHANGED <<vars, xvars, evars, dvars, mvars, bvars, kvars>>
  \/ PollTimerFires /\ UNCHANGED <<vars, xvars, evars, dvars, mvars, bvars, kvars>>
  \/ PollSelectDone /\ UNCHANGED <<vars, xvars, evars, dvars, mvars, bvars, kvars>>
  \/ PollSelectTimer /\ UNCHANGED <<vars, xvars, evars, dvars, mvars, bvars, kvars>>
  \/ PollOnceStart /\ UNCHANGED <<vars, xvars, evars, dvars, mvars, bvars, kvars>>
  \/ \E reply \in PollReplies : PollOnceReturn(reply) /\ UNCHANGED <<vars, xvars, evars, dvars, mvars, bvars, kvars>>
  \/ PollCancel /\ UNCHANGED <<vars, xvars, evars, dvars, mvars, bvars, kvars>>

PollSpec == PollInit /\ [][PollNext]_allvars

(***************************************************************************)
(* Properties of PollForToken.                                             *)
(***************************************************************************)
\* The last result of pollOnce in a history of results.
LastReply(replies) == replies[Len(replies)]

\* A step in which pollOnce returns.
PollOnceReturned == Len(pollReplies') = Len(pollReplies) + 1

IsPending(r) == r.err = PollErr("OAuthError", "authorization_pending")
IsSlowDown(r) == r.err = PollErr("OAuthError", "slow_down")
IsCredential(r) == r.err = NoPollErr /\ r.token # ""

\* C11: every wait between two consecutive poll attempts lasts at least 5
\* seconds, whatever interval PollForToken was called with and whatever
\* the server answered.
C11_EveryWaitAtLeastMinimum ==
  \A k \in DOMAIN pollWaits : pollWaits[k].ticks >= MinInterval * Second

C14_NoAttemptAfterCancel ==
  [][pollCancelled => pollAttempts' = pollAttempts]_allvars

\* C15: an outcome of pollOnce other than authorization_pending, slow_down
\* and a credential ends the loop at once, with its error and an empty
\* credential.
C15_OnlyPendingAndSlowDownRetry ==
  [][PollOnceReturned =>
       LET r == LastReply(pollReplies') IN
       (~IsPending(r) /\ ~IsSlowDown(r) /\ ~IsCredential(r)) =>
         /\ pollResult' = Returned("", r.err)
         /\ r.err # NoPollErr
         /\ pollPc' = "done"
         /\ pollAttempts' = pollAttempts]_allvars

(***************************************************************************)
(* The expiry functions applied to tokens.                                 *)
(***************************************************************************)
\* The tokens: a nil pointer, or any lifetime, expiry and short-lived token.
ExpiryInit ==
  /\ TransportIdle
  /\ PollIdle
  /\ ExchangeIdle
  /\ OthersIdle
  /\ xNow = 0
  /\ xOut = NoCall
  /\ xSet = NotSet
  /\ \E nil \in BOOLEAN, expiresIn \in Lifetimes, expiresAt \in ExpiryTimes,
        tok \in CopilotValues, exp \in CopilotExpiryTimes :
       IF nil
         THEN /\ xTok = NilToken
              /\ xCop = NilCopilotToken
              /\ expiresIn = 0 /\ expiresAt = 0 /\ tok = "" /\ exp = 0
         ELSE /\ xTok = Token(expiresIn, expiresAt, tok, exp)
              /\ xCop = CopilotToken(tok, exp)

\* t.IsExpired() on the *CopilotToken.
CallCopilotIsExpired ==
  /\ xOut' = Call("CopilotToken.IsExpired", xNow, xTok, IsExpired(xCop, xNow), FALSE)
  /\ UNCHANGED <<xTok, xCop, xNow, xSet>>

\* t.IsCopilotTokenExpired() on the *oauth.Token.
CallIsCopilotTokenExpired ==
  /\ xOut' = Call("Token.IsCopilotTokenExpired", xNow, xTok,
                  IsCopilotTokenExpired(xTok, xNow), FALSE)
  /\ UNCHANGED <<xTok, xCop, xNow, xSet>>

\* t.IsExpired() on the *oauth.Token; a nil receiver is dereferenced.
CallTokenIsExpired ==
  /\ xOut' = (IF xTok.isNil
                THEN Call("Token.IsExpired", xNow, xTok, FALSE, TRUE)
                ELSE Call("Token.IsExpired", xNow, xTok, TokenIsExpired(xTok, xNow), FALSE))
  /\ UNCHANGED <<xTok, xCop, xNow, xSet>>

\* t.SetExpiresAt() on the *oauth.Token.
CallSetExpiresAt ==
  /\ ~xTok.isNil
  /\ xTok' = SetExpiresAt(xTok, xNow)
  /\ xSet' = [done |-> TRUE, at |-> xNow, before |-> xTok]
  /\ UNCHANGED <<xCop, xNow, xOut>>

\* A second passes.
ExpiryTick ==
  /\ xNow < MaxTime
  /\ xNow' = xNow + 1
  /\ UNCHANGED <<xTok, xCop, xOut, xSet>>

ExpiryNext ==
  \/ CallCopilotIsExpired /\ UNCHANGED <<vars, pvars, evars, dvars, mvars, bvars, kvars>>
  \/ CallIsCopilotTokenExpired /\ UNCHANGED <<vars, pvars, evars, dvars, mvars, bvars, kvars>>
  \/ CallTokenIsExpired /\ UNCHANGED <<vars, pvars, evars, dvars, mvars, bvars, kvars>>
  \/ CallSetExpiresAt /\ UNCHANGED <<vars, pvars, evars, dvars, mvars, bvars, kvars>>
  \/ ExpiryTick /\ UNCHANGED <<vars, pvars, evars, dvars, mvars, bvars, kvars>>

ExpirySpec == ExpiryInit /\ [][ExpiryNext]_allvars

(***************************************************************************)
(* Properties of the expiry functions.                                     *)
(***************************************************************************)
\* C16: the expiry check of the short-lived token, CopilotToken.IsExpired
\* and Token.IsCopilotTokenExpired, is true for a nil token and for an empty
\* value, and otherwise true exactly when now >= expiresAt - 60, the
\* boundary now = expiresAt - 60 included.
C16_ShortLivedExpiry ==
  /\ xOut.op = "CopilotToken.IsExpired" =>
       xOut.out = (\/ xCop.isNil
                   \/ xCop.Token = ""
                   \/ xOut.at >= xCop.ExpiresAt - ExpiryBuffer)
  /\ xOut.op = "Token.IsCopilotTokenExpired" =>
       xOut.out = (\/ xOut.tok.isNil
                   \/ xOut.tok.CopilotToken = ""
                   \/ xOut.at >= xOut.tok.CopilotExpiresAt - ExpiryBuffer)

\* C17: for every ExpiresAt and ExpiresIn, Token.IsExpired is true exactly
\* when now >= ExpiresAt - ExpiresIn/10, the boundary included.
C17_LongLivedExpiry ==
  (xOut.op = "Token.IsExpired" /\ ~xOut.panicked) =>
    xOut.out = (xOut.at >= xOut.tok.ExpiresAt
                             - GoDiv(xOut.tok.ExpiresIn, LifetimeDivisor))

\* C18: SetExpiresAt sets ExpiresAt to now + ExpiresIn and changes no other
\* field; a token with ExpiresIn >= 1 is then not expired until the time
\* elapsed since reaches ExpiresIn - ExpiresIn/10, and expired from then on.
C18_SetExpiresAtThenExpiry ==
  /\ xSet.done =>
       xTok = [xSet.before EXCEPT !.ExpiresAt = xSet.at + xSet.before.ExpiresIn]
  /\ (/\ xSet.done
      /\ xOut.op = "Token.IsExpired"
      /\ xOut.tok = xTok
      /\ xOut.at >= xSet.at
      /\ xTok.ExpiresIn >= 1) =>
       xOut.out = (xOut.at - xSet.at >=
                     xTok.ExpiresIn - GoDiv(xTok.ExpiresIn, LifetimeDivisor))

(***************************************************************************)
(* ExchangeForCopilotToken and ValidateToken applied to answers.           *)
(***************************************************************************)
\* Bodies of an answer: no JSON, an empty object, and objects with a token,
\* an expiry or both.
AnswerBodies ==
  {NoBody, Body(TRUE, "", 0), Body(TRUE, "tid=abc", 0), Body(TRUE, "", LateExpiry),
   Body(TRUE, "tid=abc", LateExpiry), Body(TRUE, "tid=xyz", MaxInt)}

\* Answers of the exchange endpoint: the request fails, or a status of the
\* switch or another one, with any of the bodies.
ExchangeAnswers ==
  {HttpReply(TRUE, 0, NoBody)}
  \cup {HttpReply(FALSE, status, body) :
          status \in {200, 201, 204, 302, 400, 401, 403, 404, 429, 500},
          body \in AnswerBodies}

\* ValidateToken: the error of the exchange; the token is dropped.
ValidateToken(reply) == ExchangeForCopilotToken(reply).err

CallExchange(reply) ==
  exOut' = [op |-> "ExchangeForCopilotToken", reply |-> reply,
            res |-> ExchangeForCopilotToken(reply)]

CallValidateToken(reply) ==
  exOut' = [op |-> "ValidateToken", reply |-> reply,
            res |-> [called |-> TRUE, tok |-> NilCopilotToken,
                     err |-> ValidateToken(reply)]]

ExchangeInit == TransportIdle /\ PollIdle /\ ExpiryIdle /\ ExchangeIdle /\ OthersIdle

ExchangeNext ==
  \/ \E reply \in ExchangeAnswers : CallExchange(reply) /\ UNCHANGED <<vars, pvars, xvars, dvars, mvars, bvars, kvars>>
  \/ \E reply \in ExchangeAnswers : CallValidateToken(reply) /\ UNCHANGED <<vars, pvars, xvars, dvars, mvars, bvars, kvars>>

ExchangeSpec == ExchangeInit /\ [][ExchangeNext]_allvars

(***************************************************************************)
(* Properties of the token exchange.                                       *)
(***************************************************************************)
\* The errors of the switch on the status.
E401 == Err("github authentication failed", 0, NoBody)
E403 == Err("no copilot access", 0, NoBody)
E429 == Err("rate limited", 0, NoBody)

C20_OutgoingRequest ==
  [][\A p \in Procs :
       (pc[p] = "Send" /\ pc'[p] = "idle" /\ err[p] = NoErr) =>
         /\ reqCopy'[p].built
         /\ \A h \in HeaderNames :
              reqCopy'[p].Header[h] =
                CASE h = "Authorization" -> <<"Bearer", token[p]>>
                  [] h = "User-Agent" -> <<"GitHubCopilotChat/0.32.4">>
                  [] h = "Editor-Version" -> <<"vscode/1.105.1">>
                  [] h = "Editor-Plugin-Version" -> <<"copilot-chat/0.32.4">>
                  [] h = "Copilot-Integration-Id" -> <<"vscode-chat">>
                  [] h = "Openai-Intent" -> <<"conversation-edits">>
                  [] h = "X-Initiator" -> <<"user">>
                  [] OTHER -> req[p].Header[h]
         /\ result'[p] \in BaseOutcomes]_vars

\* C20 witness: a request that carried its own Authorization, User-Agent,
\* X-Initiator and Accept was sent with the first three overwritten and
\* Accept kept, and the error of the underlying transport was returned.
C20_Witness ==
  \E p \in Procs :
    /\ pc[p] = "idle"
    /\ reqCopy[p].built
    /\ req[p].Header["User-Agent"] = <<"crush/1.0">>
    /\ req[p].Header["X-Initiator"] = <<"agent">>
    /\ reqCopy[p].Header["User-Agent"] = <<"GitHubCopilotChat/0.32.4">>
    /\ reqCopy[p].Header["X-Initiator"] = <<"user">>
    /\ reqCopy[p].Header["Accept"] = <<"text/event-stream">>
    /\ reqCopy[p].Header["Authorization"] # Bearer("caller-token")
    /\ result[p] = Result("nil", Err("base transport error", 0, NoBody))

(***************************************************************************)
(* The OAuth dialog.                                                       *)
(***************************************************************************)
\* A panic in a command ends the program.
Panicked == \E s \in DOMAIN dSessions : dSessions[s].phase = "panicked"

\* o.cancelFunc(): the context of the session it belongs to is cancelled.
CancelSession(sessions, k) ==
  IF k = 0 THEN sessions ELSE [sessions EXCEPT ![k].cancelled = TRUE]

\* SetDefaults on the struct: cancelFunc is called and set to nil when it
\* is not nil, and the fields of the flow are cleared.
SetDefaults(o) == OAuth2(OAuthStateInit, NoDeviceCode, "", "", 0, NoPollErr, "", 0)

\* The owner calls SetDefaults.
CallSetDefaults ==
  /\ ~Panicked
  /\ dOps < MaxOps
  /\ dOps' = dOps + 1
  /\ dialog' = SetDefaults(dialog)
  /\ dSessions' = CancelSession(dSessions, dialog.cancelFunc)
  /\ dOut' = Op("SetDefaults", dOps + 1, dialog, <<>>)
  /\ UNCHANGED <<dPending, dMsgs, dFlows>>

\* StartFlow: SetDefaults, State = OAuthStateInit, and the batch of
\* spinner.Tick and startDeviceFlow.
StartFlow ==
  /\ ~Panicked
  /\ dOps < MaxOps
  /\ dFlows < MaxFlows
  /\ dOps' = dOps + 1
  /\ dFlows' = dFlows + 1
  /\ dialog' = [SetDefaults(dialog) EXCEPT !.State = OAuthStateInit]
  /\ dSessions' = CancelSession(dSessions, dialog.cancelFunc)
  /\ dPending' = dPending + 1
  /\ dOut' = Op("StartFlow", dOps + 1, dialog, <<"spinner.Tick", "startDeviceFlow">>)
  /\ UNCHANGED dMsgs

\* SetError: the owner puts the dialog into the error state.
SetError(e) ==
  /\ ~Panicked
  /\ dOps < MaxOps
  /\ dOps' = dOps + 1
  /\ dialog' = [dialog EXCEPT !.err = e, !.State = OAuthStateError]
  /\ dOut' = Op("SetError", dOps + 1, dialog, <<>>)
  /\ UNCHANGED <<dSessions, dPending, dMsgs, dFlows>>

\* A slip in ValidationConfirm: Enter completes the authentication while
\* the dialog still waits for the user.
ValidationConfirmCmdsEager(state) ==
  CASE state = OAuthStateInit -> <<>>
    [] state \in {OAuthStateWaitingForAuth, OAuthStateSuccess} ->
         <<"AuthenticationCompleteMsg">>
    [] state = OAuthStateError -> <<"spinner.Tick", "startDeviceFlow">>
    [] OTHER -> <<>>

\* The commands ValidationConfirm returns in a state of the dialog.
ValidationConfirmCmds(state) ==
  CASE state \in {OAuthStateInit, OAuthStateWaitingForAuth} -> <<>>
    [] state = OAuthStateSuccess -> <<"AuthenticationCompleteMsg">>
    [] state = OAuthStateError -> <<"spinner.Tick", "startDeviceFlow">>
    [] OTHER -> <<>>

\* ValidationConfirm, called when the user presses Enter. Only the error
\* state changes the dialog: SetDefaults, and a new startDeviceFlow.
ValidationConfirm ==
  /\ ~Panicked
  /\ dOps < MaxOps
  /\ dialog.State = OAuthStateError => dFlows < MaxFlows
  /\ dOps' = dOps + 1
  /\ dOut' = Op("ValidationConfirm", dOps + 1, dialog, ValidationConfirmCmds(dialog.State))
  /\ IF dialog.State = OAuthStateError
       THEN /\ dialog' = SetDefaults(dialog)
            /\ dSessions' = CancelSession(dSessions, dialog.cancelFunc)
            /\ dPending' = dPending + 1
            /\ dFlows' = dFlows + 1
       ELSE UNCHANGED <<dialog, dSessions, dPending, dFlows>>
  /\ UNCHANGED dMsgs

\* The command startDeviceFlow runs: StartDeviceFlow answers resp, and the
\* command sends ValidationCompletedMsg{Error} or DeviceFlowStartedMsg.
RunStartDeviceFlow(resp) ==
  /\ ~Panicked
  /\ dPending > 0
  /\ dPending' = dPending - 1
  /\ dMsgs' = Append(dMsgs, IF resp.failed
                              THEN ValidationCompletedMsg("", DeviceFlowErr)
                              ELSE DeviceFlowStartedMsg(resp))
  /\ UNCHANGED <<dialog, dSessions, dOps, dFlows, dOut>>

\* A slip in Update: a PollingResultMsg without an error is a success, with
\* or without a token.
UpdateDialogEmptySuccess(o, msg, session) ==
  CASE msg.type = "DeviceFlowStartedMsg" ->
         [o EXCEPT !.deviceCode = msg.DeviceCode, !.userCode = msg.UserCode,
                   !.verificationURI = msg.VerificationURI, !.interval = msg.Interval,
                   !.State = OAuthStateWaitingForAuth, !.cancelFunc = session]
    [] msg.type = "ValidationCompletedMsg" ->
         IF msg.Error # NoPollErr
           THEN [o EXCEPT !.err = msg.Error, !.State = OAuthStateError]
           ELSE [o EXCEPT !.token = msg.Token, !.State = OAuthStateSuccess]
    [] msg.type = "PollingResultMsg" ->
         IF msg.Error # NoPollErr
           THEN [o EXCEPT !.err = msg.Error, !.State = OAuthStateError]
           ELSE [o EXCEPT !.token = msg.Token, !.State = OAuthStateSuccess]
    [] OTHER -> o

\* Update on the struct; session is the number of the polling session a
\* DeviceFlowStartedMsg starts.
UpdateDialog(o, msg, session) ==
  CASE msg.type = "DeviceFlowStartedMsg" ->
         [o EXCEPT !.deviceCode = msg.DeviceCode, !.userCode = msg.UserCode,
                   !.verificationURI = msg.VerificationURI, !.interval = msg.Interval,
                   !.State = OAuthStateWaitingForAuth, !.cancelFunc = session]
    [] msg.type = "ValidationCompletedMsg" ->
         IF msg.Error # NoPollErr
           THEN [o EXCEPT !.err = msg.Error, !.State = OAuthStateError]
           ELSE [o EXCEPT !.token = msg.Token, !.State = OAuthStateSuccess]
    [] msg.type = "PollingResultMsg" ->
         IF msg.Error # NoPollErr
           THEN [o EXCEPT !.err = msg.Error, !.State = OAuthStateError]
         ELSE IF msg.Token # ""
           THEN [o EXCEPT !.token = msg.Token, !.State = OAuthStateSuccess]
         ELSE o
    [] OTHER -> o

\* Update is given the next message. For a DeviceFlowStartedMsg it makes a
\* new context, stores its cancel function over the one it holds, and
\* returns the polling command of the new session.
Update ==
  /\ ~Panicked
  /\ dMsgs # <<>>
  /\ LET msg == Head(dMsgs)
         session == Len(dSessions) + 1 IN
     /\ dMsgs' = Tail(dMsgs)
     /\ dialog' = UpdateDialog(dialog, msg, session)
     /\ dSessions' = (IF msg.type = "DeviceFlowStartedMsg"
                        THEN Append(dSessions,
                                    Session(FALSE, "created", msg, NoDeviceCode, 0))
                        ELSE dSessions)
  /\ UNCHANGED <<dPending, dOps, dFlows, dOut>>

\* The polling command of session s runs: it reads o.deviceCode and
\* o.interval now, slices the first 8 characters of the code for the log
\* (a panic when the code is shorter), and calls PollForToken.
RunPollCommand(s) ==
  /\ ~Panicked
  /\ dSessions[s].phase = "created"
  /\ dSessions' = [dSessions EXCEPT ![s] =
       IF dialog.deviceCode.length < 8
         THEN [@ EXCEPT !.phase = "panicked"]
         ELSE [@ EXCEPT !.phase = "polling", !.code = dialog.deviceCode,
                        !.interval = dialog.interval]]
  /\ UNCHANGED <<dialog, dPending, dMsgs, dOps, dFlows, dOut>>

\* PollForToken returns to the command of session s, which sends the
\* outcome as a PollingResultMsg.
PollReturns(s, outcome) ==
  /\ ~Panicked
  /\ dSessions[s].phase = "polling"
  /\ outcome \in PollOutcomes(dSessions[s].cancelled)
  /\ dSessions' = [dSessions EXCEPT ![s].phase = "returned"]
  /\ dMsgs' = Append(dMsgs, PollingResultMsg(outcome.token, outcome.err, s))
  /\ UNCHANGED <<dialog, dPending, dOps, dFlows, dOut>>

\* A message of another component is sent to the program; one such message
\* waits in the queue at a time.
Receive(msg) ==
  /\ ~Panicked
  /\ \A i \in DOMAIN dMsgs : dMsgs[i] \notin ForeignMsgs
  /\ dMsgs' = Append(dMsgs, msg)
  /\ UNCHANGED <<dialog, dSessions, dPending, dOps, dFlows, dOut>>

\* A slip in Token(): the credential is put into CopilotToken.
OAuth2TokenAsCopilot(o) ==
  IF o.token = "" THEN NilOAuthToken ELSE OAuthToken("", o.token, 0)

\* OAuth2.Token(): nil without a token, or a Token with the credential as
\* its RefreshToken.
OAuth2Token(o) ==
  IF o.token = "" THEN NilOAuthToken ELSE OAuthToken(o.token, "", 0)

\* The owner calls Token().
CallToken ==
  /\ ~Panicked
  /\ dTok' = TokenCall(dialog.token, OAuth2Token(dialog))
  /\ UNCHANGED dvars

DialogInit == TransportIdle /\ PollIdle /\ ExpiryIdle /\ ExchangeIdle /\ OthersIdle

DialogNext ==
  \/ CallSetDefaults /\ UNCHANGED <<vars, pvars, xvars, evars, mvars, bvars, kvars>>
  \/ StartFlow /\ UNCHANGED <<vars, pvars, xvars, evars, mvars, bvars, kvars>>
  \/ SetError(OwnerErr) /\ UNCHANGED <<vars, pvars, xvars, evars, mvars, bvars, kvars>>
  \/ ValidationConfirm /\ UNCHANGED <<vars, pvars, xvars, evars, mvars, bvars, kvars>>
  \/ \E resp \in DeviceFlowResponses :
       RunStartDeviceFlow(resp) /\ UNCHANGED <<vars, pvars, xvars, evars, mvars, bvars, kvars>>
  \/ Update /\ UNCHANGED <<vars, pvars, xvars, evars, mvars, bvars, kvars>>
  \/ \E s \in DOMAIN dSessions :
       RunPollCommand(s) /\ UNCHANGED <<vars, pvars, xvars, evars, mvars, bvars, kvars>>
  \/ \E s \in DOMAIN dSessions, outcome \in PollOutcomes(TRUE) :
       PollReturns(s, outcome) /\ UNCHANGED <<vars, pvars, xvars, evars, mvars, bvars, kvars>>
  \/ \E msg \in ForeignMsgs :
       Receive(msg) /\ UNCHANGED <<vars, pvars, xvars, evars, mvars, bvars, kvars>>
  \/ CallToken /\ UNCHANGED <<vars, pvars, xvars, evars, mvars, bvars>>

DialogSpec == DialogInit /\ [][DialogNext]_allvars

(***************************************************************************)
(* Properties of the OAuth dialog.                                         *)
(***************************************************************************)
\* A step in which the owner's call op returns.
OwnerCalled(op) == dOut'.seq # dOut.seq /\ dOut'.op = op

\* cmd is one of the commands in the batch.
Issues(cmds, cmd) == \E i \in DOMAIN cmds : cmds[i] = cmd

\* C21: ValidationConfirm returns the AuthenticationCompleteMsg command only
\* when State is OAuthStateSuccess; in OAuthStateInit and
\* OAuthStateWaitingForAuth it returns no command and changes nothing; in
\* OAuthStateError it resets the dialog to OAuthStateInit and issues a new
\* startDeviceFlow.
C21_ValidationConfirm ==
  [][OwnerCalled("ValidationConfirm") =>
       LET cmds == dOut'.cmds IN
       /\ Issues(cmds, "AuthenticationCompleteMsg") => dialog.State = OAuthStateSuccess
       /\ dialog.State = OAuthStateSuccess => Issues(cmds, "AuthenticationCompleteMsg")
       /\ dialog.State \in {OAuthStateInit, OAuthStateWaitingForAuth} =>
            /\ cmds = <<>>
            /\ UNCHANGED <<dialog, dSessions, dPending, dMsgs, dFlows>>
       /\ dialog.State = OAuthStateError =>
            /\ dialog'.State = OAuthStateInit
            /\ dialog'.err = NoPollErr
            /\ Issues(cmds, "startDeviceFlow")
            /\ dPending' = dPending + 1]_allvars

\* C21 witness: the user refused the authorization, and Enter in the error
\* state, the owner's third call, has reset the dialog and issued the
\* second startDeviceFlow.
C21_Witness ==
  /\ dOut.op = "ValidationConfirm"
  /\ dOut.seq = 3
  /\ dOut.before.State = OAuthStateError
  /\ dOut.before.err = PollErr("OAuthError", "access_denied")
  /\ Issues(dOut.cmds, "startDeviceFlow")
  /\ dialog.State = OAuthStateInit
  /\ dPending = 1
  /\ dFlows = 2

\* C22: from any state SetDefaults, and StartFlow, which calls it, leave
\* every polling session started earlier with a cancelled context, the
\* fields deviceCode, userCode, verificationURI, interval, err and token
\* cleared, and State at OAuthStateInit.
C22_SetDefaultsResets ==
  [][(OwnerCalled("SetDefaults") \/ OwnerCalled("StartFlow")) =>
       /\ \A s \in DOMAIN dSessions' : dSessions'[s].cancelled
       /\ dialog'.State = OAuthStateInit
       /\ dialog'.deviceCode = NoDeviceCode
       /\ dialog'.userCode = ""
       /\ dialog'.verificationURI = ""
       /\ dialog'.interval = 0
       /\ dialog'.err = NoPollErr
       /\ dialog'.token = ""]_allvars

(***************************************************************************)
(* The model catalogue: FetchModels, convertModels, GetModels.             *)
(***************************************************************************)
\* The catwalk.Model convertModels makes of a model that is not deprecated.
ConvertModel(m) ==
  CatwalkModel(m.ID, m.Name, m.Attachment \/ m.ImageInput,
               IF m.Output = 0 THEN 16384 ELSE m.Output,
               IF m.Context = 0 THEN 128000 ELSE m.Context,
               m.Reasoning)

\* convertModels over the models visited in the given order: deprecated
\* models are skipped, the others appended.
RECURSIVE convertModels(_)
convertModels(order) ==
  IF order = <<>> THEN <<>>
  ELSE LET m == CatalogueModel(order[Len(order)])
           front == convertModels(SubSeq(order, 1, Len(order) - 1)) IN
       IF m.Status = "deprecated" THEN front ELSE Append(front, ConvertModel(m))

\* FetchModels for an answer of models.dev, the map visited in the given order.
FetchModels(reply, order) ==
  IF reply.failed THEN Fetched(<<>>, Err("failed to fetch models", 0, NoBody))
  ELSE IF reply.status # 200
    THEN Fetched(<<>>, Err("failed to fetch models: status", reply.status, NoBody))
  ELSE IF ~reply.readable
    THEN Fetched(<<>>, Err("failed to read models response", 0, NoBody))
  ELSE IF ~reply.parsable
    THEN Fetched(<<>>, Err("failed to parse models response", 0, NoBody))
  ELSE IF ~reply.hasProvider
    THEN Fetched(<<>>, Err("github-copilot provider not found", 0, NoBody))
  ELSE Fetched(convertModels(order), NoErr)

DefaultModels ==
  <<CatwalkModel("gpt-4.1", "GPT-4.1", TRUE, 16384, 128000, FALSE),
    CatwalkModel("gpt-4o", "GPT-4o", TRUE, 16384, 64000, FALSE),
    CatwalkModel("gpt-5-mini", "GPT-5-mini", TRUE, 64000, 128000, TRUE),
    CatwalkModel("grok-code-fast-1", "Grok Code Fast 1", FALSE, 64000, 128000, TRUE)>>

\* A slip in GetModels: an empty list that was fetched is returned as it is.
GetModelsNoEmptyCheck(reply, order) ==
  LET f == FetchModels(reply, order) IN
  IF f.err # NoErr THEN DefaultModels ELSE f.models

GetModels(reply, order) ==
  LET f == FetchModels(reply, order) IN
  IF f.err # NoErr THEN DefaultModels
  ELSE IF Len(f.models) = 0 THEN DefaultModels
  ELSE f.models

ModelsCall(op, reply, order, out, error) ==
  [op |-> op, reply |-> reply, order |-> order, out |-> out, err |-> error]

CallFetchModels(reply, order) ==
  LET f == FetchModels(reply, order) IN
  mOut' = ModelsCall("FetchModels", reply, order, f.models, f.err)

CallGetModels(reply, order) ==
  mOut' = ModelsCall("GetModels", reply, order, GetModels(reply, order), NoErr)

CallDefaultModels ==
  mOut' = ModelsCall("DefaultModels", NoModelsCall.reply, <<>>, DefaultModels, NoErr)

ModelsInit == TransportIdle /\ PollIdle /\ ExpiryIdle /\ ExchangeIdle /\ OthersIdle

ModelsNext ==
  \/ \E reply \in ModelsReplies : \E order \in RangeOrders(reply.keys) :
       CallFetchModels(reply, order) /\ UNCHANGED <<vars, pvars, xvars, evars, dvars, bvars, kvars>>
  \/ \E reply \in ModelsReplies : \E order \in RangeOrders(reply.keys) :
       CallGetModels(reply, order) /\ UNCHANGED <<vars, pvars, xvars, evars, dvars, bvars, kvars>>
  \/ CallDefaultModels /\ UNCHANGED <<vars, pvars, xvars, evars, dvars, bvars, kvars>>

ModelsSpec == ModelsInit /\ [][ModelsNext]_allvars

\* The answer gives FetchModels a list with at least one model: status 200,
\* a body that parses, the provider in it, and a model that is not deprecated.
FetchGivesModels(reply) ==
  /\ ~reply.failed /\ reply.status = 200 /\ reply.readable /\ reply.parsable
  /\ reply.hasProvider
  /\ \E k \in reply.keys : CatalogueModel(k).Status # "deprecated"

\* C23: GetModels returns the fetched list when the fetch succeeds with at
\* least one model, DefaultModels() when the fetch fails or gives no model,
\* and so never an empty list.
C23_GetModelsNeverEmpty ==
  mOut.op = "GetModels" =>
    /\ FetchGivesModels(mOut.reply) =>
         /\ mOut.out = FetchModels(mOut.reply, mOut.order).models
         /\ Len(mOut.out) =
              Cardinality({k \in mOut.reply.keys : CatalogueModel(k).Status # "deprecated"})
         /\ \A i \in DOMAIN mOut.out :
              \E k \in mOut.reply.keys :
                /\ CatalogueModel(k).Status # "deprecated"
                /\ mOut.out[i].ID = CatalogueModel(k).ID
    /\ ~FetchGivesModels(mOut.reply) => mOut.out = DefaultModels
    /\ Len(mOut.out) > 0

\* C23 witness: the fetch succeeded and every model in the answer is
\* deprecated, so the fetched list is empty and the defaults are returned.
C23_Witness ==
  /\ mOut.op = "GetModels"
  /\ mOut.reply.status = 200 /\ mOut.reply.hasProvider
  /\ mOut.reply.keys = {"o1-preview"}
  /\ FetchModels(mOut.reply, mOut.order) = Fetched(<<>>, NoErr)
  /\ mOut.out = DefaultModels

(***************************************************************************)
(* PollForToken without its histories, for the question whether it ends.   *)
(***************************************************************************)
\* The answers of the token endpoint that leave the interval as it is.
SteadyReplies == {r \in PollReplies : r.error # "slow_down"}

\* select takes case <-time.After(...); the wait is not recorded.
PollSelectTimerLive ==
  /\ pollPc = "select"
  /\ pollTimer = "fired"
  /\ pollPc' = "attempt"
  /\ pollTimer' = "off"
  /\ UNCHANGED <<pollInterval, pollI, pollCancelled, pollAttempts, pollWaits,
                 pollReplies, pollLate, pollResult>>

\* pollOnce is called; the attempts are not counted, and nothing bounds them.
PollOnceStartLive ==
  /\ pollPc = "attempt"
  /\ pollPc' = (IF pollCancelled THEN "pollOnceCancelled" ELSE "pollOnce")
  /\ pollLate' = (pollLate \/ pollCancelled)
  /\ UNCHANGED <<pollInterval, pollI, pollCancelled, pollTimer, pollAttempts,
                 pollWaits, pollReplies, pollResult>>

\* pollOnce returns and PollForToken acts on its result; only the last
\* result is kept, and i++ is the increment of a machine integer.
PollOnceReturnLive(reply) ==
  /\ pollPc \in {"pollOnce", "pollOnceCancelled"}
  /\ pollPc = "pollOnceCancelled" => reply = CancelledReply
  /\ LET r == pollOnce(reply)
         v == PollVerdict(r) IN
     /\ pollReplies' = <<r>>
     /\ CASE v = "continue" ->
               /\ pollI' = WrapInt(pollI + 1)
               /\ pollPc' = "loop"
               /\ UNCHANGED <<pollInterval, pollResult>>
          [] v = "slow_down" ->
               /\ pollInterval' = NextInterval(pollInterval, r.newInterval)
               /\ pollI' = WrapInt(pollI + 1)
               /\ pollPc' = "loop"
               /\ UNCHANGED pollResult
          [] v = "return err" ->
               /\ pollResult' = Returned("", r.err)
               /\ pollPc' = "done"
               /\ UNCHANGED <<pollInterval, pollI>>
          [] v = "return token" ->
               /\ pollResult' = Returned(r.token, NoPollErr)
               /\ pollPc' = "done"
               /\ UNCHANGED <<pollInterval, pollI>>
  /\ UNCHANGED <<pollCancelled, pollTimer, pollAttempts, pollWaits, pollLate>>

\* The steps of the goroutine that runs PollForToken, of its timer and of
\* the token endpoint.
PollLiveStep ==
  \/ PollLoop /\ UNCHANGED <<vars, xvars, evars, dvars, mvars, bvars, kvars>>
  \/ PollTimerFires /\ UNCHANGED <<vars, xvars, evars, dvars, mvars, bvars, kvars>>
  \/ PollSelectDone /\ UNCHANGED <<vars, xvars, evars, dvars, mvars, bvars, kvars>>
  \/ PollSelectTimerLive /\ UNCHANGED <<vars, xvars, evars, dvars, mvars, bvars, kvars>>
  \/ PollOnceStartLive /\ UNCHANGED <<vars, xvars, evars, dvars, mvars, bvars, kvars>>
  \/ \E reply \in SteadyReplies :
       PollOnceReturnLive(reply) /\ UNCHANGED <<vars, xvars, evars, dvars, mvars, bvars, kvars>>

PollLiveNext ==
  \/ \E arg \in PollArgs : PollCall(arg) /\ UNCHANGED <<vars, xvars, evars, dvars, mvars, bvars, kvars>>
  \/ PollLiveStep
  \/ PollCancel /\ UNCHANGED <<vars, xvars, evars, dvars, mvars, bvars, kvars>>

\* The goroutine is scheduled, timers fire and the endpoint answers.
PollLiveSpec == PollInit /\ [][PollLiveNext]_allvars /\ WF_allvars(PollLiveStep)

\* The caller has not cancelled and the endpoint has answered nothing but
\* authorization_pending.
PendingOnly == ~pollCancelled /\ (pollReplies = <<>> \/ IsPending(pollReplies[1]))

\* C29: a call of PollForToken returns in the end, even when the caller
\* never cancels and every attempt is answered authorization_pending.
C29_EventuallyReturns ==
  []PendingOnly => [](pollPc = "loop" => <>(pollPc = "done"))

(***************************************************************************)
(* The Transport with its goroutines scheduled and its callbacks returning.*)
(***************************************************************************)
\* The steps of a call of goroutine p that wait for nothing but the
\* scheduler or the return of a callback, of the exchange or of the
\* underlying transport.
Running(p) ==
  /\ \/ Check1(p)
     \/ Check2(p)
     \/ \E r \in ProviderResults : Provider(p, r)
     \/ \E reply \in ExchangeReplies : ExchangeReturn(p, reply)
     \/ \E failed \in BOOLEAN : Save(p, failed)
     \/ \E outcome \in BaseOutcomes : RoundTripSend(p, outcome)
     \/ ClearCache(p)
  /\ UNCHANGED <<pvars, xvars, evars, dvars, mvars, bvars, kvars>>

\* The steps in which getValidToken takes the lock.
Locking(p) ==
  /\ RLock(p) \/ Lock(p)
  /\ UNCHANGED <<pvars, xvars, evars, dvars, mvars, bvars, kvars>>

\* A goroutine that can run does; sync.RWMutex lets no waiter starve.
LiveSpec ==
  /\ Init
  /\ [][Next]_allvars
  /\ \A p \in Procs : WF_allvars(Running(p)) /\ SF_allvars(Locking(p))

WideArgs == PollArgs \cup {MaxInt}

PollWideNext ==
  \/ PollNext
  \/ PollCall(MaxInt) /\ UNCHANGED <<vars, xvars, evars, dvars, mvars, bvars, kvars>>

PollWideSpec == PollInit /\ [][PollWideNext]_allvars

\* C31: within one call the interval never decreases: it starts at the
\* larger of the argument and 5, stays as it is on authorization_pending,
\* and grows on every slow_down.
C31_IntervalNeverDecreases ==
  [][/\ (pollPc = "idle" /\ pollPc' = "loop") =>
          \E arg \in WideArgs :
            pollInterval' = (IF arg > MinInterval THEN arg ELSE MinInterval)
     /\ pollPc # "idle" => pollInterval' >= pollInterval
     /\ PollOnceReturned =>
          LET r == LastReply(pollReplies') IN
          /\ IsPending(r) => pollInterval' = pollInterval
          /\ IsSlowDown(r) => pollInterval' > pollInterval]_allvars

\* An answer with neither an error nor a credential.
IsEmptyAnswer(r) == r.err = NoPollErr /\ r.token = ""

\* C32: PollForToken returns a nil error only with a credential that is not
\* empty, and an error only with an empty credential; a result of pollOnce
\* with neither an error nor a credential is treated as
\* authorization_pending is: the interval stays, and the next attempt
\* follows a wait.
C32_NoEmptySuccess ==
  /\ [](pollResult.returned => (pollResult.err = NoPollErr <=> pollResult.token # ""))
  /\ [][PollOnceReturned =>
          LET r == LastReply(pollReplies') IN
          IsEmptyAnswer(r) =>
            /\ pollPc' = "loop"
            /\ pollI' > 0
            /\ pollInterval' = pollInterval
            /\ pollResult' = NotReturned]_allvars
  /\ [][(pollAttempts' = pollAttempts + 1 /\ pollAttempts > 0) =>
          Len(pollWaits) = pollAttempts]_allvars

\* C32 witness: the first answer had neither an error nor a credential, the
\* loop waited once, and the second answer's credential was returned.
C32_Witness ==
  /\ Len(pollReplies) = 2
  /\ IsEmptyAnswer(pollReplies[1])
  /\ IsCredential(pollReplies[2])
  /\ Len(pollWaits) = 1
  /\ pollAttempts = 2
  /\ pollResult = Returned("gho_x", NoPollErr)

(***************************************************************************)
(* The two expiry checks of a Copilot token side by side.                  *)
(***************************************************************************)
\* CopilotToken{Token: v, ExpiresAt: e} of the Copilot fields of a Token.
CopilotTokenOf(t) ==
  IF t.isNil THEN NilCopilotToken
  ELSE CopilotToken(t.CopilotToken, t.CopilotExpiresAt)

\* C33: for every token value v, expiry time e and clock reading,
\* CopilotToken{v, e}.IsExpired() and IsCopilotTokenExpired() of a Token
\* whose Copilot fields are v and e give the same answer.
C33_ExpiryChecksAgree ==
  /\ xOut.op = "Token.IsCopilotTokenExpired" =>
       xOut.out = IsExpired(CopilotTokenOf(xOut.tok), xOut.at)
  /\ xOut.op = "CopilotToken.IsExpired" =>
       /\ xCop = CopilotTokenOf(xOut.tok)
       /\ xOut.out = IsCopilotTokenExpired(xOut.tok, xOut.at)

\* C33 witness: IsCopilotTokenExpired said "expired" of a token with a value,
\* at the first instant inside the 60 second buffer.
C33_Witness ==
  /\ xOut.op = "Token.IsCopilotTokenExpired"
  /\ ~xOut.tok.isNil
  /\ xOut.tok.CopilotToken # ""
  /\ xOut.at = xOut.tok.CopilotExpiresAt - ExpiryBuffer
  /\ xOut.out = TRUE

(***************************************************************************)
(* The polling sessions of the OAuth dialog.                               *)
(***************************************************************************)
\* A polling session is running: its command has not returned, and its
\* context is not cancelled.
RunningSession(sessions, s) ==
  /\ ~sessions[s].cancelled
  /\ sessions[s].phase \in {"created", "polling"}

\* A step in which Update is given the message at the head of the queue.
Updated == dMsgs # <<>> /\ dMsgs' = Tail(dMsgs)

\* C34: at most one polling session with an uncancelled context is running,
\* and when Update starts a polling session the context of every earlier
\* one has been cancelled.
C34_OneRunningSession ==
  /\ [](\A s, t \in DOMAIN dSessions :
          (RunningSession(dSessions, s) /\ RunningSession(dSessions, t)) => s = t)
  /\ [][(Updated /\ Head(dMsgs).type = "DeviceFlowStartedMsg") =>
          \A s \in DOMAIN dSessions : dSessions[s].cancelled]_allvars

\* C35: a PollingResultMsg of a polling session that was cancelled when the
\* flow was restarted leaves State, err and token of the dialog as they are.
C35_StaleResultIgnored ==
  [][(/\ Updated
      /\ Head(dMsgs).type = "PollingResultMsg"
      /\ Head(dMsgs).session \in DOMAIN dSessions
      /\ dSessions[Head(dMsgs).session].cancelled
      /\ dialog.cancelFunc # Head(dMsgs).session) =>
        /\ dialog'.State = dialog.State
        /\ dialog'.err = dialog.err
        /\ dialog'.token = dialog.token]_allvars

\* C36: the polling command of a session does not fail, and it polls with
\* the device code and the interval of the DeviceFlowStartedMsg the session
\* was started for.
C36_PollsWithMessageFields ==
  \A s \in DOMAIN dSessions :
    /\ dSessions[s].phase # "panicked"
    /\ dSessions[s].phase \in {"polling", "returned"} =>
         /\ dSessions[s].code = dSessions[s].msg.DeviceCode
         /\ dSessions[s].interval = dSessions[s].msg.Interval

(***************************************************************************)
(* The token of the OAuth dialog, and the transitions of Update.           *)
(***************************************************************************)
\* The credentials PollForToken returns to the commands of the dialog.
PolledCredentials ==
  {outcome.token : outcome \in {r \in PollOutcomes(TRUE) : r.err = NoPollErr}}

\* C37: State == OAuthStateSuccess implies a stored token that is not empty;
\* Token() called in that state returns a credential whose RefreshToken is
\* the credential polling returned; and Token() returns nil exactly when the
\* stored token is empty.
C37_SuccessHasToken ==
  /\ [](dialog.State = OAuthStateSuccess =>
          /\ dialog.token # ""
          /\ dialog.token \in PolledCredentials)
  /\ [](dTok.called =>
          /\ dTok.out.isNil <=> dTok.token = ""
          /\ ~dTok.out.isNil => dTok.out.RefreshToken = dTok.token)
  /\ [][(dTok' # dTok /\ dialog.State = OAuthStateSuccess) =>
          /\ ~dTok'.out.isNil
          /\ dTok'.out.RefreshToken = dialog.token
          /\ dTok'.out.RefreshToken \in PolledCredentials]_allvars
  /\ [][(/\ Updated
         /\ Head(dMsgs).type = "PollingResultMsg"
         /\ Head(dMsgs).Token # ""
         /\ dialog'.State = OAuthStateSuccess) =>
          OAuth2Token(dialog').RefreshToken = Head(dMsgs).Token]_allvars

\* C37 witness: polling returned the credential, Update stored it, and
\* Token(), called in OAuthStateSuccess, returned it as the RefreshToken.
C37_Witness ==
  /\ dialog.State = OAuthStateSuccess
  /\ dialog.token = "gho_x"
  /\ \E s \in DOMAIN dSessions : dSessions[s].phase = "returned"
  /\ dTok = TokenCall("gho_x", OAuthToken("gho_x", "", 0))

====
